---- MODULE Spec2Model ----
(***************************************************************************)
(* Vault storage engine (techninja8/getvault.io, go-storage-engine).       *)
(* The storage pipeline StoreData / RetrieveData / VerifyData over the     *)
(* file-backed InMemoryShardStore, with AES-CFB encryption, Reed-Solomon   *)
(* erasure coding (8 data + 6 parity shards) and Merkle proofs recorded in *)
(* a line-oriented metadata ("manifest") file.                             *)
(*                                                                         *)
(* Bytes are the integers 0..255.  A Go value that may be nil is a         *)
(* sequence of length 0 (Nil) or 1 (Some(v)).  An error is a string, the   *)
(* empty string being Go's nil error.                                      *)
(***************************************************************************)
EXTENDS Integers, Sequences, FiniteSets, TLC

Nil == << >>
Some(v) == << v >>
IsNil(o) == Len(o) = 0
NoErr == ""

Min(a, b) == IF a < b THEN a ELSE b

Zeros(n) == [i \in 1 .. n |-> 0]

(***************************************************************************)
(* Program constants.                                                      *)
(***************************************************************************)
DataShards == 8
ParityShards == 6
TotalShards == DataShards + ParityShards
ManifestShardCount == 14
AesBlockSize == 16
AesKeySize == 32
ShardIdx == 0 .. (TotalShards - 1)

\* A shard vector is a sequence of shards; the shard of index i (0-based, as
\* in the source) is at position i + 1.
At(v, i) == v[i + 1]

(***************************************************************************)
(* GF(2^8) as used by the Reed-Solomon coder: polynomial 0x11D, generator  *)
(* 2.  expTable[i+1] = 2^i, logTable[a] = log_2(a) for a in 1..255.        *)
(***************************************************************************)
expTable ==
  <<
       1,   2,   4,   8,  16,  32,  64, 128,  29,  58, 116, 232, 205, 135,  19,  38,
      76, 152,  45,  90, 180, 117, 234, 201, 143,   3,   6,  12,  24,  48,  96, 192,
     157,  39,  78, 156,  37,  74, 148,  53, 106, 212, 181, 119, 238, 193, 159,  35,
      70, 140,   5,  10,  20,  40,  80, 160,  93, 186, 105, 210, 185, 111, 222, 161,
      95, 190,  97, 194, 153,  47,  94, 188, 101, 202, 137,  15,  30,  60, 120, 240,
     253, 231, 211, 187, 107, 214, 177, 127, 254, 225, 223, 163,  91, 182, 113, 226,
     217, 175,  67, 134,  17,  34,  68, 136,  13,  26,  52, 104, 208, 189, 103, 206,
     129,  31,  62, 124, 248, 237, 199, 147,  59, 118, 236, 197, 151,  51, 102, 204,
     133,  23,  46,  92, 184, 109, 218, 169,  79, 158,  33,  66, 132,  21,  42,  84,
     168,  77, 154,  41,  82, 164,  85, 170,  73, 146,  57, 114, 228, 213, 183, 115,
     230, 209, 191,  99, 198, 145,  63, 126, 252, 229, 215, 179, 123, 246, 241, 255,
     227, 219, 171,  75, 150,  49,  98, 196, 149,  55, 110, 220, 165,  87, 174,  65,
     130,  25,  50, 100, 200, 141,   7,  14,  28,  56, 112, 224, 221, 167,  83, 166,
      81, 162,  89, 178, 121, 242, 249, 239, 195, 155,  43,  86, 172,  69, 138,   9,
      18,  36,  72, 144,  61, 122, 244, 245, 247, 243, 251, 235, 203, 139,  11,  22,
      44,  88, 176, 125, 250, 233, 207, 131,  27,  54, 108, 216, 173,  71, 142
  >>

logTable ==
  <<
       0,   1,  25,   2,  50,  26, 198,   3, 223,  51, 238,  27, 104, 199,  75,   4,
     100, 224,  14,  52, 141, 239, 129,  28, 193, 105, 248, 200,   8,  76, 113,   5,
     138, 101,  47, 225,  36,  15,  33,  53, 147, 142, 218, 240,  18, 130,  69,  29,
     181, 194, 125, 106,  39, 249, 185, 201, 154,   9, 120,  77, 228, 114, 166,   6,
     191, 139,  98, 102, 221,  48, 253, 226, 152,  37, 179,  16, 145,  34, 136,  54,
     208, 148, 206, 143, 150, 219, 189, 241, 210,  19,  92, 131,  56,  70,  64,  30,
      66, 182, 163, 195,  72, 126, 110, 107,  58,  40,  84, 250, 133, 186,  61, 202,
      94, 155, 159,  10,  21, 121,  43,  78, 212, 229, 172, 115, 243, 167,  87,   7,
     112, 192, 247, 140, 128,  99,  13, 103,  74, 222, 237,  49, 197, 254,  24, 227,
     165, 153, 119,  38, 184, 180, 124,  17,  68, 146, 217,  35,  32, 137,  46,  55,
      63, 209,  91, 149, 188, 207, 205, 144, 135, 151, 178, 220, 252, 190,  97, 242,
      86, 211, 171,  20,  42,  93, 158, 132,  60,  57,  83,  71, 109,  65, 162,  31,
      45,  67, 216, 183, 123, 164, 118, 196,  23,  73, 236, 127,  12, 111, 246, 108,
     161,  59,  82,  41, 157,  85, 170, 251,  96, 134, 177, 187, 204,  62,  90, 203,
      89,  95, 176, 156, 169, 160,  81,  11, 245,  22, 235, 122, 117,  44, 215,  79,
     174, 213, 233, 230, 231, 173, 232, 116, 214, 244, 234, 168,  80,  88, 175
  >>

xorNibble ==
  <<
     <<  0,  1,  2,  3,  4,  5,  6,  7,  8,  9, 10, 11, 12, 13, 14, 15 >>,
     <<  1,  0,  3,  2,  5,  4,  7,  6,  9,  8, 11, 10, 13, 12, 15, 14 >>,
     <<  2,  3,  0,  1,  6,  7,  4,  5, 10, 11,  8,  9, 14, 15, 12, 13 >>,
     <<  3,  2,  1,  0,  7,  6,  5,  4, 11, 10,  9,  8, 15, 14, 13, 12 >>,
     <<  4,  5,  6,  7,  0,  1,  2,  3, 12, 13, 14, 15,  8,  9, 10, 11 >>,
     <<  5,  4,  7,  6,  1,  0,  3,  2, 13, 12, 15, 14,  9,  8, 11, 10 >>,
     <<  6,  7,  4,  5,  2,  3,  0,  1, 14, 15, 12, 13, 10, 11,  8,  9 >>,
     <<  7,  6,  5,  4,  3,  2,  1,  0, 15, 14, 13, 12, 11, 10,  9,  8 >>,
     <<  8,  9, 10, 11, 12, 13, 14, 15,  0,  1,  2,  3,  4,  5,  6,  7 >>,
     <<  9,  8, 11, 10, 13, 12, 15, 14,  1,  0,  3,  2,  5,  4,  7,  6 >>,
     << 10, 11,  8,  9, 14, 15, 12, 13,  2,  3,  0,  1,  6,  7,  4,  5 >>,
     << 11, 10,  9,  8, 15, 14, 13, 12,  3,  2,  1,  0,  7,  6,  5,  4 >>,
     << 12, 13, 14, 15,  8,  9, 10, 11,  4,  5,  6,  7,  0,  1,  2,  3 >>,
     << 13, 12, 15, 14,  9,  8, 11, 10,  5,  4,  7,  6,  1,  0,  3,  2 >>,
     << 14, 15, 12, 13, 10, 11,  8,  9,  6,  7,  4,  5,  2,  3,  0,  1 >>,
     << 15, 14, 13, 12, 11, 10,  9,  8,  7,  6,  5,  4,  3,  2,  1,  0 >>
  >>

\* bitwise exclusive or of two bytes, nibble by nibble
BitXor(a, b) ==
  16 * xorNibble[(a \div 16) + 1][(b \div 16) + 1]
  + xorNibble[(a % 16) + 1][(b % 16) + 1]

galAdd(a, b) == BitXor(a, b)

galMultiply(a, b) ==
  IF a = 0 \/ b = 0 THEN 0
  ELSE expTable[((logTable[a] + logTable[b]) % 255) + 1]

galDivide(a, b) ==
  IF a = 0 THEN 0
  ELSE expTable[((logTable[a] - logTable[b] + 255) % 255) + 1]

(***************************************************************************)
(* Reed-Solomon (reedsolomon.New(8, 6)).  The coder's matrix is the 14x8   *)
(* Vandermonde matrix (row r, column c: r^c) times the inverse of its top  *)
(* 8x8 square, so the codeword of data d is f(0), ..., f(13) for the       *)
(* polynomial f of degree < 8 with f(j) = d[j], j < 8.  Computing a shard  *)
(* from 8 others, which the coder does by inverting the sub-matrix of      *)
(* their rows, is Lagrange interpolation through those 8 points.           *)
(***************************************************************************)
RECURSIVE LagrangeCoef(_, _, _)
\* prod over j in xs, j # k, of (x - j) / (k - j); xs a sequence of indices
LagrangeCoef(xs, k, x) ==
  IF xs = << >> THEN 1
  ELSE LET j == Head(xs)
           r == LagrangeCoef(Tail(xs), k, x)
       IN IF j = k THEN r
          ELSE galMultiply(r, galDivide(galAdd(x, j), galAdd(k, j)))

RECURSIVE LagrangeCoefs(_, _, _)
\* the coefficients of the points rest of xs, in order
LagrangeCoefs(xs, rest, x) ==
  IF rest = << >> THEN << >>
  ELSE << LagrangeCoef(xs, Head(rest), x) >> \o LagrangeCoefs(xs, Tail(rest), x)

RECURSIVE DotColumn(_, _, _, _, _)
\* sum over n of coef[n] * (byte col of the shard of index xs[n])
DotColumn(coef, xs, v, col, n) ==
  IF n = 0 THEN 0
  ELSE galAdd(galMultiply(coef[n], At(v, xs[n])[col]),
              DotColumn(coef, xs, v, col, n - 1))

RECURSIVE Columns(_, _, _, _, _)
Columns(coef, xs, v, col, size) ==
  IF col > size THEN << >>
  ELSE << DotColumn(coef, xs, v, col, Len(xs)) >> \o Columns(coef, xs, v, col + 1, size)

\* the shard of index x (size bytes) computed from the shards of indices xs
InterpolateShard(xs, v, x, size) ==
  Columns(LagrangeCoefs(xs, xs, x), xs, v, 1, size)

RECURSIVE Ascending(_, _, _)
\* the members of S within lo..hi, ascending
Ascending(S, lo, hi) ==
  IF lo > hi THEN << >>
  ELSE (IF lo \in S THEN << lo >> ELSE << >>) \o Ascending(S, lo + 1, hi)

FirstN(s, n) == SubSeq(s, 1, Min(n, Len(s)))

RECURSIVE Cut(_, _, _)
Cut(padded, perShard, i) ==
  IF i >= DataShards THEN << >>
  ELSE << SubSeq(padded, i * perShard + 1, (i + 1) * perShard) >>
       \o Cut(padded, perShard, i + 1)

\* Encoder.Split: 8 data shards of ceil(len/8) bytes, the tail zero-padded
Split(data) ==
  LET perShard == (Len(data) + DataShards - 1) \div DataShards
  IN Cut(data \o Zeros(perShard * DataShards - Len(data)), perShard, 0)

RECURSIVE Parity(_, _, _, _)
\* Encoder.Encode: the parity shards of indices i..13 from the data shards d
Parity(pts, d, i, size) ==
  IF i >= TotalShards THEN << >>
  ELSE << InterpolateShard(pts, d, i, size) >> \o Parity(pts, d, i + 1, size)

\* erasurecoding.Encode
Encode(data) ==
  IF Len(data) = 0 THEN [err |-> "ErrShortData", shards |-> << >>]
  ELSE LET d == Split(data)
       IN [err |-> NoErr,
           shards |-> d \o Parity(Ascending(ShardIdx, 0, DataShards - 1), d,
                                  DataShards, Len(d[1]))]

RECURSIVE Fill(_, _, _, _, _)
\* the vector with every missing shard from index i on computed from valid
Fill(valid, have, present, size, i) ==
  IF i >= TotalShards THEN << >>
  ELSE << IF i \in present THEN At(have, i)
          ELSE InterpolateShard(valid, have, i, size) >>
       \o Fill(valid, have, present, size, i + 1)

RECURSIVE Unwrap(_, _)
Unwrap(shards, n) ==
  IF n > Len(shards) THEN << >>
  ELSE << IF IsNil(shards[n]) THEN << >> ELSE shards[n][1] >> \o Unwrap(shards, n + 1)

\* Encoder.Reconstruct on a vector of optional shards (Nil or empty =
\* missing): nothing to do when all are present; otherwise the first 8
\* present shards determine every missing one.  The result holds plain shards.
Reconstruct(shards) ==
  LET have == Unwrap(shards, 1)
      present == {i \in ShardIdx : Len(At(have, i)) # 0}
      sizes == {Len(At(have, i)) : i \in present}
  IN IF present = {} THEN [err |-> "ErrShardNoData", shards |-> have]
     ELSE IF Cardinality(sizes) # 1 THEN [err |-> "ErrShardSize", shards |-> have]
     ELSE IF present = ShardIdx THEN [err |-> NoErr, shards |-> have]
     ELSE IF Cardinality(present) < DataShards
          THEN [err |-> "ErrTooFewShards", shards |-> have]
     ELSE [err |-> NoErr,
           shards |-> Fill(FirstN(Ascending(present, 0, TotalShards - 1), DataShards),
                           have, present, CHOOSE n \in sizes : TRUE, 0)]

RECURSIVE Join(_, _, _)
\* Encoder.Join: the first outSize bytes of the data shards, in order
Join(shards, i, outSize) ==
  IF i >= DataShards \/ outSize <= 0 THEN << >>
  ELSE LET n == Min(outSize, Len(At(shards, i)))
       IN SubSeq(At(shards, i), 1, n) \o Join(shards, i + 1, outSize - n)

\* erasurecoding.Decode
Decode(shards) ==
  LET r == Reconstruct(shards)
  IN IF r.err # NoErr THEN [err |-> r.err, data |-> Nil]
     ELSE [err |-> NoErr,
           data |-> Some(Join(r.shards, 0, Len(At(r.shards, 0)) * DataShards))]

(***************************************************************************)
(* Encryption: AES-256 in CFB mode, the IV prepended.  The AES block       *)
(* function is a fixed keyed function of the 16-byte block; CFB only ever  *)
(* uses its forward direction.                                             *)
(***************************************************************************)
RECURSIVE SumSeq(_)
SumSeq(s) == IF s = << >> THEN 0 ELSE Head(s) + SumSeq(Tail(s))

\* cipher.Block.Encrypt: 16 bytes from the key (of 16, 24 or 32 bytes) and a
\* 16-byte block
AesEncryptBlock(key, block) ==
  LET k == SumSeq(key)
      b == SumSeq(block)
  IN [i \in 1 .. AesBlockSize |->
        (31 * k + 17 * b + 7 * block[i] + 3 * key[i] + 5 * key[((i + AesBlockSize - 1) % Len(key)) + 1]
         + 101 * i + 99) % 256]

XorBytes(a, b, n) == [i \in 1 .. n |-> BitXor(a[i], b[i])]

RECURSIVE XORKeyStream(_, _, _, _)
\* the CFB stream over data: each 16-byte block is xored with the AES image
\* of the previous ciphertext block (reg; the IV at first)
XORKeyStream(key, reg, data, decrypt) ==
  IF Len(data) = 0 THEN << >>
  ELSE LET n == Min(AesBlockSize, Len(data))
           out == XorBytes(data, AesEncryptBlock(key, reg), n) \o << >>
           next == IF decrypt THEN SubSeq(data, 1, n) ELSE out
       IN IF Len(data) <= AesBlockSize THEN out
          ELSE out \o XORKeyStream(key, next, SubSeq(data, n + 1, Len(data)), decrypt)

\* aes.NewCipher
NewCipherErr(key) ==
  IF Len(key) \in {16, 24, 32} THEN NoErr ELSE "crypto/aes: invalid key size"

\* encryption.Encrypt; iv is what rand.Reader delivers
Encrypt(data, key, iv) ==
  IF NewCipherErr(key) # NoErr THEN [err |-> NewCipherErr(key), data |-> Nil]
  ELSE [err |-> NoErr, data |-> Some(iv \o XORKeyStream(key, iv, data, FALSE))]

\* encryption.Decrypt
Decrypt(cipherText, key) ==
  IF NewCipherErr(key) # NoErr THEN [err |-> NewCipherErr(key), data |-> Nil]
  ELSE IF Len(cipherText) < AesBlockSize THEN [err |-> NoErr, data |-> Nil]
  ELSE [err |-> NoErr,
        data |-> Some(XORKeyStream(key, SubSeq(cipherText, 1, AesBlockSize),
                                   SubSeq(cipherText, AesBlockSize + 1, Len(cipherText)),
                                   TRUE))]

(***************************************************************************)
(* The configured key: a string of characters, given as the value 0..15 of *)
(* a hex digit, or NotHex for any other character.                         *)
(***************************************************************************)
NotHex == 16

RECURSIVE HexPairs(_)
HexPairs(s) ==
  IF Len(s) < 2 THEN << >>
  ELSE << 16 * s[1] + s[2] >> \o HexPairs(SubSeq(s, 3, Len(s)))

\* hex.DecodeString
HexDecodeString(s) ==
  IF \E i \in 1 .. Len(s) : s[i] = NotHex
    THEN [err |-> "encoding/hex: invalid byte", data |-> Nil]
  ELSE IF Len(s) % 2 = 1 THEN [err |-> "encoding/hex: odd length hex string", data |-> Nil]
  ELSE [err |-> NoErr, data |-> Some(HexPairs(s))]

\* datastorage.GetEncryptionKey
GetEncryptionKeyAnyLength(c) ==
  LET d == HexDecodeString(c.EncryptionKey)
  IN IF d.err # NoErr THEN [err |-> d.err, key |-> Nil]
     ELSE [err |-> NoErr, key |-> d.data]

GetEncryptionKey(c) ==
  LET d == HexDecodeString(c.EncryptionKey)
  IN IF d.err # NoErr THEN [err |-> d.err, key |-> Nil]
     ELSE IF Len(d.data[1]) # AesKeySize
          THEN [err |-> "invalid encryption key length", key |-> Nil]
     ELSE [err |-> NoErr, key |-> d.data]

(***************************************************************************)
(* SHA-256 as an ideal hash: the digest of x is the pair <<"sha256", x>>,  *)
(* so two digests are equal exactly when their inputs are.  The input of   *)
(* an inner Merkle node, the concatenation of two digests, is their pair.  *)
(***************************************************************************)
Sha256(x) == << "sha256", x >>

\* datastorage.GenerateDataID: the lowercase hex of the digest
GenerateDataID(data) == << [k |-> "hex", v |-> Sha256(data)] >>

(***************************************************************************)
(* proofofinclusion over merkletree.MerkleTree: the leaves are the digests *)
(* of the contents; an odd leaf list gets its last leaf duplicated; each   *)
(* level pairs its nodes left to right, a last unpaired node with itself.  *)
(***************************************************************************)
\* Content.CalculateHash; a nil content hashes as the empty string
CalculateHash(c) == Sha256(IF IsNil(c) THEN << >> ELSE c[1])

\* Content.Equals: string(c.data) == string(other.data)
ContentEquals(c, other) ==
  (IF IsNil(c) THEN << >> ELSE c[1]) = (IF IsNil(other) THEN << >> ELSE other[1])

RECURSIVE LeafHashes(_, _)
LeafHashes(cs, n) ==
  IF n > Len(cs) THEN << >>
  ELSE << CalculateHash(cs[n]) >> \o LeafHashes(cs, n + 1)

RECURSIVE NextLevel(_, _)
\* buildIntermediate, one level: the parents of the nodes from position i on
NextLevel(nl, i) ==
  IF i > Len(nl) THEN << >>
  ELSE LET left == nl[i]
           right == IF i + 1 > Len(nl) THEN nl[i] ELSE nl[i + 1]
       IN << Sha256(<< left, right >>) >> \o NextLevel(nl, i + 2)

RECURSIVE Levels(_)
\* the levels above nl, bottom-up, up to the root
Levels(nl) ==
  IF Len(nl) <= 1 THEN << >>
  ELSE LET up == NextLevel(nl, 1)
       IN << up >> \o Levels(up)

\* merkletree.NewTree: the leaf contents (with the duplicate) and all levels
NewTree(cs) ==
  IF Len(cs) = 0
    THEN [err |-> "error: cannot construct tree with no content",
          leafs |-> << >>, levels |-> << >>]
  ELSE LET leafs == IF Len(cs) % 2 = 1 THEN cs \o << cs[Len(cs)] >> ELSE cs
           hashes == LeafHashes(leafs, 1)
       IN [err |-> NoErr, leafs |-> leafs, levels |-> << hashes >> \o Levels(hashes)]

\* proofofinclusion.BuildMerkleTree
BuildMerkleTree(dataSlices) == NewTree(dataSlices)

RECURSIVE PathFrom(_, _, _)
\* from the node at position n of level lv up to the root: at every level
\* the sibling's hash and 1 when the node's hash equals its parent's left
\* child's hash, else the left child's hash and 0
PathFrom(tree, lv, n) ==
  IF lv >= Len(tree.levels) THEN [path |-> << >>, index |-> << >>]
  ELSE LET nl == tree.levels[lv]
           l == 2 * ((n - 1) \div 2) + 1
           left == nl[l]
           right == IF l + 1 > Len(nl) THEN nl[l] ELSE nl[l + 1]
           rest == PathFrom(tree, lv + 1, ((n - 1) \div 2) + 1)
       IN IF left = nl[n]
            THEN [path |-> << right >> \o rest.path, index |-> << 1 >> \o rest.index]
            ELSE [path |-> << left >> \o rest.path, index |-> << 0 >> \o rest.index]

RECURSIVE FirstEqual(_, _, _)
\* the position of the first leaf from n on whose content Equals; 0 if none
FirstEqual(leafs, content, n) ==
  IF n > Len(leafs) THEN 0
  ELSE IF ContentEquals(leafs[n], content) THEN n
  ELSE FirstEqual(leafs, content, n + 1)

\* MerkleTree.GetMerklePath: the path of the first leaf whose content Equals
GetMerklePath(tree, content) ==
  LET n == FirstEqual(tree.leafs, content, 1)
  IN IF n = 0 THEN [path |-> << >>, index |-> << >>]
     ELSE PathFrom(tree, 1, n)

(***************************************************************************)
(* Text.  A line of text is a sequence of tokens [k, v]: "txt" (a piece of *)
(* text without ": "), "num" (an integer printed by %d), "sep" (the two    *)
(* characters ": "), "ws" (blanks), "hex" (a data id), "hashes" and "ints" *)
(* (a list printed by %v).                                                 *)
(***************************************************************************)
Txt(s) == [k |-> "txt", v |-> s]
Num(n) == [k |-> "num", v |-> n]
Sep == [k |-> "sep", v |-> ": "]
Ws == [k |-> "ws", v |-> "  "]

TokEq(a, b) == a.k = b.k /\ a.v = b.v

\* equality of two strings
StrEq(a, b) == Len(a) = Len(b) /\ \A i \in 1 .. Len(a) : TokEq(a[i], b[i])

\* proofofinclusion.GetProof: Sprintf("proof: %v, indices: %v", proof, indices)
GetProof(tree, content) ==
  LET p == GetMerklePath(tree, Some(content))
  IN << Txt("proof"), Sep, [k |-> "hashes", v |-> p.path],
        Txt(", indices"), Sep, [k |-> "ints", v |-> p.index] >>

RECURSIVE TrimLeft(_)
TrimLeft(s) == IF Len(s) > 0 /\ s[1].k = "ws" THEN TrimLeft(Tail(s)) ELSE s

RECURSIVE TrimRight(_)
TrimRight(s) ==
  IF Len(s) > 0 /\ s[Len(s)].k = "ws" THEN TrimRight(SubSeq(s, 1, Len(s) - 1)) ELSE s

\* strings.TrimSpace
TrimSpace(s) == TrimRight(TrimLeft(s))

RECURSIVE IndexSep(_, _)
\* strings.Index(line, ": ") from position i on; 0 when there is none
IndexSep(line, i) ==
  IF i > Len(line) THEN 0
  ELSE IF line[i].k = "sep" THEN i
  ELSE IndexSep(line, i + 1)

\* strings.SplitN(line, ": ", 2): the parts before and after the first ": "
SplitN2(line) ==
  LET i == IndexSep(line, 1)
  IN IF i = 0 THEN << line >>
     ELSE << SubSeq(line, 1, i - 1), SubSeq(line, i + 1, Len(line)) >>

RECURSIVE ScanLinesStopAtBare(_, _, _)
ScanLinesStopAtBare(lines, n, key) ==
  IF n > Len(lines) THEN [err |-> "key not found in metadata file", value |-> << >>]
  ELSE LET parts == SplitN2(lines[n])
       IN IF Len(parts) # 2
            THEN [err |-> "key not found in metadata file", value |-> << >>]
          ELSE IF StrEq(TrimSpace(parts[1]), key)
                 THEN [err |-> NoErr, value |-> TrimSpace(parts[2])]
          ELSE ScanLinesStopAtBare(lines, n + 1, key)

RECURSIVE ScanLines(_, _, _)
ScanLines(lines, n, key) ==
  IF n > Len(lines) THEN [err |-> "key not found in metadata file", value |-> << >>]
  ELSE LET parts == SplitN2(lines[n])
       IN IF Len(parts) # 2 THEN ScanLines(lines, n + 1, key)
          ELSE IF StrEq(TrimSpace(parts[1]), key)
                 THEN [err |-> NoErr, value |-> TrimSpace(parts[2])]
          ELSE ScanLines(lines, n + 1, key)

\* datastorage.MetadataFileReader on the files fs
MetadataFileReader(fs, filename, key) ==
  IF filename \notin DOMAIN fs THEN [err |-> "error opening file", value |-> << >>]
  ELSE ScanLines(fs[filename], 1, key)

\* the keys the pipeline looks up
KeyDataID == << Txt("dataID") >>
KeyShard(i) == << Txt("shard_"), Num(i) >>
KeyProof(i) == << Txt("Proof for shard "), Num(i) >>

(***************************************************************************)
(* Maps (Go maps, and the file systems: path -> content).                  *)
(***************************************************************************)
EmptyMap == << >>
Has(f, k) == k \in DOMAIN f
Put(f, k, v) == [x \in (DOMAIN f) \cup {k} |-> IF x = k THEN v ELSE f[x]]
Without(f, ks) ==
  IF (DOMAIN f) \ ks = {} THEN EmptyMap ELSE [x \in (DOMAIN f) \ ks |-> f[x]]

(***************************************************************************)
(* sharding.InMemoryShardStore.  mem is the map ShardStore (data id ->     *)
(* index -> shard), disk the shard files.                                  *)
(***************************************************************************)
\* getShardPath: <location>/<dataID>_<index>.shard
getShardPath(dataID, index, location) == << location, dataID, index >>

\* ims.ShardStore[dataID][index] = shard, creating the inner map if needed
SetShard(mem, dataID, index, shard) ==
  Put(mem, dataID, Put(IF Has(mem, dataID) THEN mem[dataID] ELSE EmptyMap, index, shard))

\* StoreShard; ioOk tells whether MkdirAll and WriteFile succeed
StoreShard(mem, disk, dataID, index, shard, location, ioOk) ==
  LET mem1 == SetShard(mem, dataID, index, shard)
  IN IF ~ioOk THEN [err |-> "failed to create directory", mem |-> mem1, disk |-> disk]
     ELSE [err |-> NoErr, mem |-> mem1,
           disk |-> Put(disk, getShardPath(dataID, index, location), shard)]

\* RetrieveShard: from the map when it holds the shard, else from the file,
\* which is then put in the map
RetrieveShard(mem, disk, dataID, index, location) ==
  IF Has(mem, dataID) /\ Has(mem[dataID], index)
    THEN [err |-> NoErr, shard |-> Some(mem[dataID][index]), mem |-> mem]
  ELSE IF ~Has(disk, getShardPath(dataID, index, location))
    THEN [err |-> "no shards found for DataID", shard |-> Nil, mem |-> mem]
  ELSE LET shard == disk[getShardPath(dataID, index, location)]
       IN [err |-> NoErr, shard |-> Some(shard),
           mem |-> SetShard(mem, dataID, index, shard)]

(***************************************************************************)
(* The pipeline.  Every operation returns, besides its Go results, the     *)
(* state it leaves (mem, disk, fs: the metadata files) and the sequence of *)
(* backend calls it made (log).                                            *)
(***************************************************************************)
Event(call, index, location, ok) ==
  [call |-> call, index |-> index, location |-> location, ok |-> ok]

\* filepath.Base and the extension without its dot
Base(filePath) == filePath.base
Format(filePath) == filePath.ext

RECURSIVE StoreLoopPastFailure(_, _, _, _, _, _, _, _)
\* StoreLoop without its return on a failed StoreShard
StoreLoopPastFailure(mem, disk, dataID, shards, locations, idx, failAt, log) ==
  IF idx >= Len(shards) THEN [err |-> NoErr, mem |-> mem, disk |-> disk, log |-> log]
  ELSE IF idx + 1 > Len(locations)
    THEN [err |-> "panic: index out of range", mem |-> mem, disk |-> disk, log |-> log]
  ELSE LET location == locations[idx + 1]
           r == StoreShard(mem, disk, dataID, idx, At(shards, idx), location, idx # failAt)
       IN StoreLoopPastFailure(r.mem, r.disk, dataID, shards, locations, idx + 1, failAt,
                               Append(log, Event("StoreShard", idx, location, r.err = NoErr)))

RECURSIVE StoreLoopRollback(_, _, _, _, _, _, _, _)
StoreLoopRollback(mem, disk, dataID, shards, locations, idx, failAt, log) ==
  IF idx >= Len(shards) THEN [err |-> NoErr, mem |-> mem, disk |-> disk, log |-> log]
  ELSE IF idx + 1 > Len(locations)
    THEN [err |-> "panic: index out of range", mem |-> mem, disk |-> disk, log |-> log]
  ELSE LET location == locations[idx + 1]
           r == StoreShard(mem, disk, dataID, idx, At(shards, idx), location, idx # failAt)
           log1 == Append(log, Event("StoreShard", idx, location, r.err = NoErr))
       IN IF r.err # NoErr
            THEN [err |-> r.err, mem |-> r.mem,
                  disk |-> Without(r.disk, {getShardPath(dataID, j, locations[j + 1]) :
                                              j \in 0 .. (idx - 1)}),
                  log |-> log1]
          ELSE StoreLoopRollback(r.mem, r.disk, dataID, shards, locations, idx + 1, failAt,
                                 log1)

RECURSIVE StoreLoop(_, _, _, _, _, _, _, _)
\* the loop storing the shards from index idx on; failAt is the index of the
\* StoreShard call whose file operations fail
StoreLoop(mem, disk, dataID, shards, locations, idx, failAt, log) ==
  IF idx >= Len(shards) THEN [err |-> NoErr, mem |-> mem, disk |-> disk, log |-> log]
  ELSE IF idx + 1 > Len(locations)
    THEN [err |-> "panic: index out of range", mem |-> mem, disk |-> disk, log |-> log]
  ELSE LET location == locations[idx + 1]
           r == StoreShard(mem, disk, dataID, idx, At(shards, idx), location, idx # failAt)
           log1 == Append(log, Event("StoreShard", idx, location, r.err = NoErr))
       IN IF r.err # NoErr
            THEN [err |-> r.err, mem |-> r.mem, disk |-> r.disk, log |-> log1]
          ELSE StoreLoop(r.mem, r.disk, dataID, shards, locations, idx + 1, failAt, log1)

RECURSIVE LocationLines(_, _)
LocationLines(locations, n) ==
  IF n > Len(locations) THEN << >>
  ELSE << << Ws, Txt("shard_"), Num(n - 1), Sep >> \o locations[n] >>
       \o LocationLines(locations, n + 1)

RECURSIVE ProofLines(_, _, _)
ProofLines(tree, shards, i) ==
  IF i >= Len(shards) THEN << >>
  ELSE << << Ws, Txt("Proof for shard "), Num(i), Sep >> \o GetProof(tree, At(shards, i)) >>
       \o ProofLines(tree, shards, i + 1)

\* the text StoreData appends to the metadata file
ManifestText(dataID, data, filePath, now, locations, shards) ==
  << << Txt("dataID"), Sep >> \o dataID,
     << Txt("filename"), Sep, Txt(Base(filePath)) >>,
     << Txt("filesize"), Sep, Num(Len(data)) >>,
     << Txt("format"), Sep, Txt(Format(filePath)) >>,
     << Txt("creation_date"), Sep, Txt(now) >>,
     << Txt("storage_locations"), Sep, Txt("{") >> >>
  \o LocationLines(locations, 1)
  \o << << Txt("}") >>, << Txt("Proofs"), Sep, Txt("{") >> >>
  \o ProofLines(BuildMerkleTree([n \in 1 .. Len(shards) |-> Some(shards[n])]), shards, 0)
  \o << << Txt("}") >> >>

StoreResult(err, dataID, mem, disk, fs, log, cipherText, shards) ==
  [err |-> err, dataID |-> dataID, mem |-> mem, disk |-> disk, fs |-> fs, log |-> log,
   cipherText |-> cipherText, shards |-> shards]

\* datastorage.StoreData.  newmetadatafile is the name MetadataFileCreator
\* draws, iv the bytes rand.Reader delivers, now the clock's reading.
StoreData(data, mem, disk, fs, c, locations, filePath, newmetadatafile, iv, now, failAt) ==
  LET k == GetEncryptionKey(c)
  IN IF k.err # NoErr THEN StoreResult(k.err, << >>, mem, disk, fs, << >>, << >>, << >>)
  ELSE LET e == Encrypt(data, k.key[1], iv)
  IN IF e.err # NoErr THEN StoreResult(e.err, << >>, mem, disk, fs, << >>, << >>, << >>)
  ELSE LET cipherText == e.data[1]
           dataID == GenerateDataID(cipherText)
           enc == Encode(cipherText)
  IN IF enc.err # NoErr
       THEN StoreResult(enc.err, << >>, mem, disk, fs, << >>, cipherText, << >>)
  ELSE LET st == StoreLoop(mem, disk, dataID, enc.shards, locations, 0, failAt, << >>)
  IN IF st.err # NoErr
       THEN StoreResult(st.err, << >>, st.mem, st.disk, fs, st.log, cipherText, enc.shards)
  ELSE LET text == ManifestText(dataID, data, filePath, now, locations, enc.shards)
           old == IF Has(fs, newmetadatafile) THEN fs[newmetadatafile] ELSE << >>
       IN StoreResult(NoErr, dataID, st.mem, st.disk,
                      Put(fs, newmetadatafile, old \o text),
                      Append(st.log, Event("WriteManifest", -1, << Txt(newmetadatafile) >>, TRUE)),
                      cipherText, enc.shards)

RECURSIVE ReadLocationsSkipMissing(_, _, _)
\* ReadLocations without its return on a missing shard_i entry
ReadLocationsSkipMissing(fs, metadatafile, i) ==
  IF i >= ManifestShardCount THEN [err |-> NoErr, locations |-> << >>]
  ELSE [err |-> NoErr,
        locations |-> << MetadataFileReader(fs, metadatafile, KeyShard(i)).value >>
                      \o ReadLocationsSkipMissing(fs, metadatafile, i + 1).locations]

RECURSIVE ReadLocations(_, _, _)
\* the loop reading shard_0 .. shard_13 from the metadata file
ReadLocations(fs, metadatafile, i) ==
  IF i >= ManifestShardCount THEN [err |-> NoErr, locations |-> << >>]
  ELSE LET r == MetadataFileReader(fs, metadatafile, KeyShard(i))
       IN IF r.err # NoErr THEN [err |-> r.err, locations |-> << >>]
          ELSE LET rest == ReadLocations(fs, metadatafile, i + 1)
               IN [err |-> rest.err,
                   locations |-> IF rest.err # NoErr THEN << >>
                                 ELSE << r.value >> \o rest.locations]

RECURSIVE FetchLoopShifted(_, _, _, _, _, _, _, _)
FetchLoopShifted(mem, disk, dataID, locations, i, n, shards, log) ==
  IF i >= n THEN [mem |-> mem, shards |-> shards, log |-> log]
  ELSE LET location == locations[i + 1]
           r == RetrieveShard(mem, disk, dataID, (i + 1) % n, location)
       IN FetchLoopShifted(r.mem, disk, dataID, locations, i + 1, n,
                           Append(shards, r.shard),
                           Append(log, Event("RetrieveShard", i, location, r.err = NoErr)))

RECURSIVE FetchLoop(_, _, _, _, _, _, _, _)
\* the loop fetching the shards from index i up to n - 1: the vector of
\* optional shards, the number missing, the store's map and the calls
FetchLoop(mem, disk, dataID, locations, i, n, shards, log) ==
  IF i >= n THEN [mem |-> mem, shards |-> shards, log |-> log]
  ELSE LET location == locations[i + 1]
           r == RetrieveShard(mem, disk, dataID, i, location)
       IN FetchLoop(r.mem, disk, dataID, locations, i + 1, n,
                    Append(shards, r.shard),
                    Append(log, Event("RetrieveShard", i, location, r.err = NoErr)))

Missing(shards) == Cardinality({n \in 1 .. Len(shards) : IsNil(shards[n])})

RetrieveResult(err, data, mem, log, shards) ==
  [err |-> err, data |-> data, mem |-> mem, log |-> log, shards |-> shards]

\* datastorage.RetrieveData
RetrieveData(metadatafile, mem, disk, fs, c) ==
  LET id == MetadataFileReader(fs, metadatafile, KeyDataID)
  IN IF id.err # NoErr
       THEN RetrieveResult("error reading metadata file", Nil, mem, << >>, << >>)
  ELSE LET loc == ReadLocations(fs, metadatafile, 0)
  IN IF loc.err # NoErr
       THEN RetrieveResult("error reading shard location from metadata file", Nil, mem,
                           << >>, << >>)
  ELSE LET f == FetchLoop(mem, disk, id.value, loc.locations, 0, TotalShards, << >>, << >>)
  IN IF Missing(f.shards) > ParityShards
       THEN RetrieveResult("insufficient shards for reconstruction", Nil, f.mem, f.log,
                           f.shards)
  ELSE LET d == Decode(f.shards)
  IN IF d.err # NoErr THEN RetrieveResult(d.err, Nil, f.mem, f.log, f.shards)
  ELSE LET k == GetEncryptionKey(c)
  IN IF k.err # NoErr THEN RetrieveResult(k.err, Nil, f.mem, f.log, f.shards)
  ELSE LET p == Decrypt(d.data[1], k.key[1])
       IN RetrieveResult(p.err, p.data, f.mem, f.log, f.shards)

RECURSIVE ReadProofs(_, _, _)
\* the loop reading "Proof for shard 0" .. "Proof for shard 13"
ReadProofs(fs, metadatafile, i) ==
  IF i >= ManifestShardCount THEN [err |-> NoErr, proofs |-> << >>]
  ELSE LET r == MetadataFileReader(fs, metadatafile, KeyProof(i))
       IN IF r.err # NoErr THEN [err |-> r.err, proofs |-> << >>]
          ELSE LET rest == ReadProofs(fs, metadatafile, i + 1)
               IN [err |-> rest.err,
                   proofs |-> IF rest.err # NoErr THEN << >>
                              ELSE << r.value >> \o rest.proofs]

RECURSIVE CompareProofs(_, _, _, _)
\* the loop printing "Shard_i Verification: <proof == proofs[i]>" for every
\* shard that is not nil: "true", "false", or "" when nothing is printed
CompareProofs(tree, shards, proofs, n) ==
  IF n > Len(shards) THEN << >>
  ELSE << IF IsNil(shards[n]) THEN ""
          ELSE IF StrEq(GetProof(tree, shards[n][1]), proofs[n]) THEN "true"
          ELSE "false" >>
       \o CompareProofs(tree, shards, proofs, n + 1)

NothingPrinted == [n \in 1 .. ManifestShardCount |-> ""]

VerifyResult(err, report, mem, log, shards) ==
  [err |-> err, report |-> report, mem |-> mem, log |-> log, shards |-> shards]

\* datastorage.VerifyData; report is what it prints for each shard
VerifyData(metadatafile, mem, disk, fs) ==
  LET id == MetadataFileReader(fs, metadatafile, KeyDataID)
  IN IF id.err # NoErr
       THEN VerifyResult("error reading metadata file", NothingPrinted, mem, << >>, << >>)
  ELSE LET loc == ReadLocations(fs, metadatafile, 0)
  IN IF loc.err # NoErr
       THEN VerifyResult("error reading shard location from metadata file", NothingPrinted,
                         mem, << >>, << >>)
  ELSE LET f == FetchLoop(mem, disk, id.value, loc.locations, 0, Len(loc.locations),
                          << >>, << >>)
           tree == BuildMerkleTree(f.shards)
  IN IF tree.err # NoErr
       THEN VerifyResult("failed to build Merkle tree", NothingPrinted, f.mem, f.log, f.shards)
  ELSE LET pr == ReadProofs(fs, metadatafile, 0)
  IN IF pr.err # NoErr
       THEN VerifyResult("failed to read proof from metadata file", NothingPrinted, f.mem,
                         f.log, f.shards)
  ELSE VerifyResult(NoErr, CompareProofs(tree, f.shards, pr.proofs, 1), f.mem, f.log,
                    f.shards)

(***************************************************************************)
(* Bounds and inputs of the model.                                         *)
(***************************************************************************)
\* the longest payload; 16 + MaxLen is a multiple of DataShards
MaxLen == 8
\* calls of StoreData
MaxStores == 1
\* interferences of the environment with the persisted files
MaxFaults == 1

\* "Hello, Vault Storage!"
SampleText ==
  << 72, 101, 108, 108, 111, 44, 32, 86, 97, 117, 108, 116, 32, 83, 116, 111, 114,
     97, 103, 101, 33 >>

\* the payloads: the first byte of the sample text, and its first MaxLen bytes
Payloads == {SubSeq(SampleText, 1, n) : n \in {1, Min(MaxLen, Len(SampleText))}}

\* what rand.Reader may deliver as the IV
IVs == {[i \in 1 .. AesBlockSize |-> i], [i \in 1 .. AesBlockSize |-> 255 - i]}

\* the configured key: 64 hex digits
ConfigKeys == {[i \in 1 .. 2 * AesKeySize |-> (7 * i) % 16]}

LocationNames ==
  << "loc_0", "loc_1", "loc_2", "loc_3", "loc_4", "loc_5", "loc_6", "loc_7", "loc_8",
     "loc_9", "loc_10", "loc_11", "loc_12", "loc_13", "loc_14" >>

\* the lists of locations a caller passes: the canonical 14, and one of 15
LocationLists ==
  {[n \in 1 .. m |-> << Txt(LocationNames[n]) >>] : m \in {ManifestShardCount, Len(LocationNames)}}

FilePaths == {[base |-> "hello.txt", ext |-> "txt"]}
MetadataFileNames == {"vault_session_a.vmd"}
Clock == {"2025-01-01T00:00:00Z"}

\* the sets of shard indices the environment deletes in one go: every single
\* index, six scattered indices, six and seven leading indices, all parity
DeletionSets ==
  {{i} : i \in ShardIdx}
  \cup {{0, 3, 7, 9, 11, 13}, 0 .. 5, 0 .. 6, DataShards .. (TotalShards - 1)}

(***************************************************************************)
(* State.                                                                  *)
(***************************************************************************)
VARIABLES
  cfg,         \* the process configuration (config.Config)
  ShardStore,  \* InMemoryShardStore.ShardStore of the running process
  disk,        \* the shard files: path -> bytes
  metafiles,   \* the metadata files: name -> lines
  ret,         \* the last pipeline call: its results, its backend calls
  written,     \* history: metadata file -> what the StoreData that wrote it stored
  nStore,      \* history: StoreData calls so far
  nFault,      \* history: interferences so far
  retry,       \* the running datastorage.Retry call: its locals and its history
  offline,     \* the shard files that cannot be read for the moment
  call,        \* a single function call under test: its arguments, its results
  mu,          \* InMemoryShardStore.mu: the goroutine holding Lock, those holding RLock
  gor          \* the goroutines calling the shard store: position, arguments, locals

vars ==
  << cfg, ShardStore, disk, metafiles, ret, written, nStore, nFault, retry, offline, call,
     mu, gor >>

Ret(op, file, err, data, report, log, shards) ==
  [op |-> op, file |-> file, err |-> err, data |-> data, report |-> report, log |-> log,
   shards |-> shards]

\* sync.RWMutex, zero value: no writer (goroutines are numbered from 1), no reader
Unlocked == [writer |-> 0, readers |-> {}]

\* no function call is under test
NoCall == [fn |-> "none", args |-> << >>, out |-> << >>, done |-> FALSE]

\* no Retry call is running
NoRetry ==
  [pc |-> "idle", op |-> "none", args |-> << >>, attempts |-> 0, sleep |-> 0,
   initial |-> 0, i |-> 0, err |-> NoErr, calls |-> << >>, waits |-> << >>, data |-> Nil,
   n |-> 0]

Init ==
  /\ cfg \in {[EncryptionKey |-> k] : k \in ConfigKeys}
  /\ ShardStore = EmptyMap
  /\ disk = EmptyMap
  /\ metafiles = EmptyMap
  /\ ret = Ret("none", "", NoErr, Nil, NothingPrinted, << >>, << >>)
  /\ written = EmptyMap
  /\ nStore = 0
  /\ nFault = 0
  /\ retry = NoRetry
  /\ offline = {}
  /\ call = NoCall
  /\ mu = Unlocked
  /\ gor = << >>

(***************************************************************************)
(* The operations of the pipeline.                                         *)
(***************************************************************************)
DoStoreData ==
  /\ nStore < MaxStores
  /\ \E data \in Payloads, iv \in IVs, locations \in LocationLists,
        filePath \in FilePaths, name \in MetadataFileNames, now \in Clock,
        failAt \in 0 .. TotalShards :
       \E r \in {StoreData(data, ShardStore, disk, metafiles, cfg, locations, filePath,
                          name, iv, now, failAt)} :
          /\ ShardStore' = r.mem
          /\ disk' = r.disk
          /\ metafiles' = r.fs
          /\ ret' = Ret("StoreData", name, r.err, Nil, NothingPrinted, r.log, r.shards)
          /\ written' = IF r.err # NoErr THEN written
                        ELSE Put(written, name,
                                 [data |-> data, cipherText |-> r.cipherText,
                                  shards |-> r.shards, dataID |-> r.dataID,
                                  locations |-> locations, manifest |-> r.fs[name]])
  /\ nStore' = nStore + 1
  /\ UNCHANGED << call, cfg, nFault, retry, offline, mu, gor >>

DoRetrieveData ==
  /\ \E name \in MetadataFileNames :
       \E r \in {RetrieveData(name, ShardStore, disk, metafiles, cfg)} :
          /\ ShardStore' = r.mem
          /\ ret' = Ret("RetrieveData", name, r.err, r.data, NothingPrinted, r.log, r.shards)
  /\ UNCHANGED << call, cfg, disk, metafiles, written, nStore, nFault, retry, offline, mu, gor >>

DoVerifyData ==
  /\ \E name \in MetadataFileNames :
       \E r \in {VerifyData(name, ShardStore, disk, metafiles)} :
          /\ ShardStore' = r.mem
          /\ ret' = Ret("VerifyData", name, r.err, Nil, r.report, r.log, r.shards)
  /\ UNCHANGED << call, cfg, disk, metafiles, written, nStore, nFault, retry, offline, mu, gor >>

\* the process ends and a new one starts: NewInMemoryShardStore
Restart ==
  /\ ShardStore # EmptyMap
  /\ ShardStore' = EmptyMap
  /\ UNCHANGED << call, cfg, disk, metafiles, ret, written, nStore, nFault, retry, offline, mu, gor >>

(***************************************************************************)
(* The environment: what happens to the persisted files between calls.     *)
(***************************************************************************)
PathOf(w, i) == getShardPath(w.dataID, i, w.locations[i + 1])

DeleteShards ==
  /\ nFault < MaxFaults
  /\ \E name \in DOMAIN written, S \in DeletionSets :
       \E paths \in {{PathOf(written[name], i) : i \in S}} :
          /\ paths \cap DOMAIN disk # {}
          /\ disk' = Without(disk, paths)
  /\ nFault' = nFault + 1
  /\ UNCHANGED << call, cfg, ShardStore, metafiles, ret, written, nStore, retry, offline, mu, gor >>

\* one byte of the file of one of the shards I is flipped
TamperAmong(I) ==
  /\ nFault < MaxFaults
  /\ \E name \in DOMAIN written, i \in I :
       \E path \in {PathOf(written[name], i)} :
          /\ Has(disk, path)
          /\ disk' = [disk EXCEPT ![path] = [@ EXCEPT ![1] = BitXor(@, 255)]]
  /\ nFault' = nFault + 1
  /\ UNCHANGED << call, cfg, ShardStore, metafiles, ret, written, nStore, retry, offline, mu, gor >>

\* one byte of one shard file is flipped
TamperShard == TamperAmong(ShardIdx)

RECURSIVE DropKey(_, _)
\* lines without the lines whose key is key
DropKey(lines, key) ==
  IF lines = << >> THEN << >>
  ELSE LET parts == SplitN2(Head(lines))
       IN (IF Len(parts) = 2 /\ StrEq(TrimSpace(parts[1]), key) THEN << >>
           ELSE << Head(lines) >>)
          \o DropKey(Tail(lines), key)

\* a shard_i entry is removed from a metadata file
DropManifestEntry ==
  /\ nFault < MaxFaults
  /\ \E name \in DOMAIN metafiles, i \in 0 .. (ManifestShardCount - 1) :
       \E lines \in {DropKey(metafiles[name], KeyShard(i))} :
          /\ lines # metafiles[name]
          /\ metafiles' = [metafiles EXCEPT ![name] = lines]
  /\ nFault' = nFault + 1
  /\ UNCHANGED << call, cfg, ShardStore, disk, ret, written, nStore, retry, offline, mu, gor >>

Next ==
  \/ DoStoreData
  \/ DoRetrieveData
  \/ DoVerifyData
  \/ Restart
  \/ DeleteShards
  \/ TamperShard
  \/ DropManifestEntry

Spec == Init /\ [][Next]_vars

(***************************************************************************)
(* datastorage.Retry, as the commands of main use it: Retry(3, 2 s) around *)
(* a closure that calls StoreData or RetrieveData and wraps its error.     *)
(* The Retry call is a process: pc "loop" is the test of the for loop,     *)
(* "sleep" the point after a failed fn(), "done" the return.  Durations    *)
(* are counted in seconds.                                                 *)
(***************************************************************************)
DefaultAttempts == 3
DefaultSleep == 2

\* attempts a caller may ask for: 1 .. MaxAttempts
MaxAttempts == 3
\* Retry calls in one behaviour
MaxSessions == 2

\* the initial delays: main's 2 s, and 1 s
Delays == {DefaultSleep, 1}

\* the payload of the store command
RetryPayloads == {SubSeq(SampleText, 1, Min(MaxLen, Len(SampleText)))}

\* the locations ReadStorageLocations returns: exactly 14
ConfiguredLocations == {l \in LocationLists : Len(l) = ManifestShardCount}

\* the index at which an attempt's StoreShard fails; TotalShards: at none
FailPoints == {1, TotalShards}

\* the shard files that are unreadable together for a while
Outages == {{0}, 0 .. (ParityShards - 1), 0 .. ParityShards, 1 .. (ParityShards + 1)}

\* fmt.Errorf("store failed: %w", err) of the closures
WrapErr(prefix, err) == IF err = NoErr THEN NoErr ELSE prefix \o ": " \o err

\* the Retry call as it starts
RetryStart(op, args, attempts, sleep, n) ==
  [pc |-> "loop", op |-> op, args |-> args, attempts |-> attempts, sleep |-> sleep,
   initial |-> sleep, i |-> 0, err |-> NoErr, calls |-> << >>, waits |-> << >>,
   data |-> Nil, n |-> n]

\* Retry after fn() with every error taken for success
RetryAfterFnDeaf(r, err, data) ==
  [r EXCEPT !.err = NoErr, !.calls = Append(@, err), !.data = data, !.pc = "done"]

\* Retry after err = fn(): return nil on success, else go on to sleep
RetryAfterFn(r, err, data) ==
  IF err = NoErr
    THEN [r EXCEPT !.err = NoErr, !.calls = Append(@, err), !.data = data, !.pc = "done"]
    ELSE [r EXCEPT !.err = err, !.calls = Append(@, err), !.pc = "sleep"]

\* Retry after a sleep that is never doubled
RetrySleptFlat(r) ==
  [r EXCEPT !.waits = Append(@, r.sleep), !.i = @ + 1, !.pc = "loop"]

\* Retry after time.Sleep(sleep); sleep *= 2; i++
RetrySlept(r) ==
  [r EXCEPT !.waits = Append(@, r.sleep), !.sleep = r.sleep * 2, !.i = @ + 1, !.pc = "loop"]

Running == retry.pc \in {"loop", "sleep"}

\* a command of main starts, in a process of its own with a new shard store,
\* and calls Retry
RetryBegin ==
  /\ ~Running
  /\ offline = {}
  /\ ShardStore' = EmptyMap
  /\ retry.n < MaxSessions
  /\ \E attempts \in 1 .. MaxAttempts, sleep \in Delays :
       \/ \E data \in RetryPayloads, locations \in ConfiguredLocations, filePath \in FilePaths :
            retry' = RetryStart("store",
                                [data |-> data, locations |-> locations, filePath |-> filePath],
                                attempts, sleep, retry.n + 1)
       \/ \E name \in MetadataFileNames :
            retry' = RetryStart("retrieve", [metadataFile |-> name], attempts, sleep,
                                retry.n + 1)
  /\ UNCHANGED << call, cfg, disk, metafiles, ret, written, nStore, nFault, offline, mu, gor >>

\* fn() of the store command
RetryCallStore ==
  /\ retry.pc = "loop"
  /\ retry.op = "store"
  /\ retry.i < retry.attempts
  /\ \E iv \in IVs, name \in MetadataFileNames, now \in Clock, failAt \in FailPoints :
       \E r \in {StoreData(retry.args.data, ShardStore, disk, metafiles, cfg,
                           retry.args.locations, retry.args.filePath, name, iv, now,
                           failAt)} :
          /\ ShardStore' = r.mem
          /\ disk' = r.disk
          /\ metafiles' = r.fs
          /\ ret' = Ret("StoreData", name, r.err, Nil, NothingPrinted, r.log, r.shards)
          /\ written' = IF r.err # NoErr THEN written
                        ELSE Put(written, name,
                                 [data |-> retry.args.data, cipherText |-> r.cipherText,
                                  shards |-> r.shards, dataID |-> r.dataID,
                                  locations |-> retry.args.locations,
                                  manifest |-> r.fs[name]])
          /\ retry' = RetryAfterFn(retry, WrapErr("store failed", r.err), Nil)
  /\ UNCHANGED << call, cfg, nStore, nFault, offline, mu, gor >>

\* fn() of the retrieve command
RetryCallRetrieve ==
  /\ retry.pc = "loop"
  /\ retry.op = "retrieve"
  /\ retry.i < retry.attempts
  /\ \E r \in {RetrieveData(retry.args.metadataFile, ShardStore, Without(disk, offline),
                            metafiles, cfg)} :
       /\ ShardStore' = r.mem
       /\ ret' = Ret("RetrieveData", retry.args.metadataFile, r.err, r.data, NothingPrinted,
                     r.log, r.shards)
       /\ retry' = RetryAfterFn(retry, WrapErr("retrieve failed", r.err), r.data)
  /\ UNCHANGED << call, cfg, disk, metafiles, written, nStore, nFault, offline, mu, gor >>

RetrySleep ==
  /\ retry.pc = "sleep"
  /\ retry' = RetrySlept(retry)
  /\ UNCHANGED << call, cfg, ShardStore, disk, metafiles, ret, written, nStore, nFault, offline, mu, gor >>

\* the loop ends after the last attempt: return err
RetryReturn ==
  /\ retry.pc = "loop"
  /\ retry.i >= retry.attempts
  /\ retry' = [retry EXCEPT !.pc = "done"]
  /\ UNCHANGED << call, cfg, ShardStore, disk, metafiles, ret, written, nStore, nFault, offline, mu, gor >>

\* before an attempt of a retrieve command some shard files become unreadable
GoOffline ==
  /\ retry.pc = "loop"
  /\ retry.op = "retrieve"
  /\ offline = {}
  /\ retry.args.metadataFile \in DOMAIN written
  /\ \E S \in Outages :
       offline' = {PathOf(written[retry.args.metadataFile], i) : i \in S}
  /\ UNCHANGED << call, cfg, ShardStore, disk, metafiles, ret, written, nStore, nFault, retry, mu, gor >>

\* the unreadable files are readable again
ComeOnline ==
  /\ retry.pc = "loop"
  /\ offline # {}
  /\ offline' = {}
  /\ UNCHANGED << call, cfg, ShardStore, disk, metafiles, ret, written, nStore, nFault, retry, mu, gor >>

\* the shards that get altered between two commands
TamperTargets == {0}

\* a shard file is altered between two commands
TamperBetweenCommands == ~Running /\ offline = {} /\ TamperAmong(TamperTargets)

NextRetry ==
  \/ RetryBegin
  \/ RetryCallStore
  \/ RetryCallRetrieve
  \/ RetrySleep
  \/ RetryReturn
  \/ GoOffline
  \/ ComeOnline
  \/ TamperBetweenCommands

SpecRetry == Init /\ [][NextRetry]_vars

(***************************************************************************)
(* Retry called with any number of attempts: the parameter is an int, and  *)
(* a caller may pass zero or a negative number.                            *)
(***************************************************************************)
RetryBeginAny ==
  /\ ~Running
  /\ offline = {}
  /\ ShardStore' = EmptyMap
  /\ retry.n < MaxSessions
  /\ \E attempts \in -1 .. MaxAttempts, sleep \in Delays :
       \/ \E data \in RetryPayloads, locations \in ConfiguredLocations, filePath \in FilePaths :
            retry' = RetryStart("store",
                                [data |-> data, locations |-> locations, filePath |-> filePath],
                                attempts, sleep, retry.n + 1)
       \/ \E name \in MetadataFileNames :
            retry' = RetryStart("retrieve", [metadataFile |-> name], attempts, sleep,
                                retry.n + 1)
  /\ UNCHANGED << call, cfg, disk, metafiles, ret, written, nStore, nFault, offline, mu, gor >>

NextRetryAny ==
  RetryBeginAny \/ RetryCallStore \/ RetryCallRetrieve \/ RetrySleep \/ RetryReturn

SpecRetryAny == Init /\ [][NextRetryAny]_vars

(***************************************************************************)
(* encryption.Decrypt called on its own: the caller hands it any bytes and *)
(* an AES-256 key, and reads the two results.                              *)
(***************************************************************************)
MaxCipherLen == 18

ByteStreams ==
  {[i \in 1 .. MaxCipherLen |-> (37 * i + 11) % 256],
   [i \in 1 .. MaxCipherLen |-> (101 * i) % 256],
   [i \in 1 .. MaxCipherLen |-> 0]}

\* the inputs: every prefix of the streams, the empty input included
CipherTexts == {SubSeq(s, 1, n) : s \in ByteStreams, n \in 0 .. MaxCipherLen}

\* two keys of the AES-256 length
CipherKeys == {[i \in 1 .. AesKeySize |-> i], [i \in 1 .. AesKeySize |-> (5 * i) % 256]}

InitDecrypt ==
  /\ cfg \in {[EncryptionKey |-> k] : k \in ConfigKeys}
  /\ ShardStore = EmptyMap
  /\ disk = EmptyMap
  /\ metafiles = EmptyMap
  /\ ret = Ret("none", "", NoErr, Nil, NothingPrinted, << >>, << >>)
  /\ written = EmptyMap
  /\ nStore = 0
  /\ nFault = 0
  /\ retry = NoRetry
  /\ offline = {}
  /\ mu = Unlocked
  /\ gor = << >>
  /\ call \in {[fn |-> "Decrypt", args |-> [cipherText |-> c, key |-> k], out |-> << >>,
                done |-> FALSE] : c \in CipherTexts, k \in CipherKeys}

\* plainText, err := encryption.Decrypt(cipherText, key)
CallDecrypt ==
  /\ call.fn = "Decrypt"
  /\ ~call.done
  /\ call' = [call EXCEPT !.out = Decrypt(call.args.cipherText, call.args.key),
                          !.done = TRUE]
  /\ UNCHANGED << cfg, ShardStore, disk, metafiles, ret, written, nStore, nFault, retry,
                  offline, mu, gor >>

NextDecrypt == CallDecrypt

SpecDecrypt == InitDecrypt /\ [][NextDecrypt]_vars

(***************************************************************************)
(* The pipeline under any ENCRYPTION_KEY setting: a process is started     *)
(* with a key that may be no hex string or of another length than 32       *)
(* bytes, and a later process may be started with another setting.         *)
(***************************************************************************)
HexDigits(n) == [i \in 1 .. n |-> (7 * i) % 16]

\* the settings: the valid key; a key with a character that is no hex digit;
\* keys of 63 hex digits, of 31 bytes, of 16 bytes and of 33 bytes
KeySettings ==
  ConfigKeys
  \cup {[i \in 1 .. 2 * AesKeySize |-> IF i = 3 THEN NotHex ELSE (7 * i) % 16]}
  \cup {HexDigits(2 * AesKeySize - 1), HexDigits(2 * AesKeySize - 2),
        HexDigits(AesKeySize), HexDigits(2 * AesKeySize + 2)}

InitKeys ==
  /\ cfg \in {[EncryptionKey |-> k] : k \in KeySettings}
  /\ ShardStore = EmptyMap
  /\ disk = EmptyMap
  /\ metafiles = EmptyMap
  /\ ret = Ret("none", "", NoErr, Nil, NothingPrinted, << >>, << >>)
  /\ written = EmptyMap
  /\ nStore = 0
  /\ nFault = 0
  /\ retry = NoRetry
  /\ offline = {}
  /\ call = NoCall
  /\ mu = Unlocked
  /\ gor = << >>

\* a new process under another setting of ENCRYPTION_KEY
LoadConfig ==
  /\ cfg' \in {[EncryptionKey |-> k] : k \in KeySettings}
  /\ cfg' # cfg
  /\ ShardStore' = EmptyMap
  /\ UNCHANGED << call, disk, metafiles, ret, written, nStore, nFault, retry, offline, mu, gor >>

NextKeys == DoStoreData \/ DoRetrieveData \/ LoadConfig

SpecKeys == InitKeys /\ [][NextKeys]_vars

(***************************************************************************)
(* Package merkle: a tree over leaves that are digests already, every      *)
(* level kept; a proof is a list of ProofElement [Hash, IsLeft].  A digest *)
(* is a slice whose capacity is its length, so append(left, right...)      *)
(* builds a new string, the concatenation.                                 *)
(***************************************************************************)
RECURSIVE NextLevelFrom(_, _)
\* the inner loop of buildTree from position i (0-based) on
NextLevelFrom(level, i) ==
  IF i >= Len(level) THEN << >>
  ELSE LET left == At(level, i)
           right == IF i + 1 < Len(level) THEN At(level, i + 1) ELSE left
           combined == left \o right
       IN << Sha256(combined) >> \o NextLevelFrom(level, i + 2)

RECURSIVE LevelsAbove(_)
\* the outer loop of buildTree: the levels appended after level
LevelsAbove(level) ==
  IF Len(level) > 1
    THEN LET nextLevel == NextLevelFrom(level, 0)
         IN << nextLevel >> \o LevelsAbove(nextLevel)
  ELSE << >>

\* MerkleTree.buildTree: Levels[0] = the leaves, then the levels above
buildTree(mt) == [mt EXCEPT !.Levels = mt.Levels \o << mt.Leaves >> \o LevelsAbove(mt.Leaves)]

\* merkle.NewMerkleTree
NewMerkleTree(leaves) == buildTree([Leaves |-> leaves, Levels |-> << >>])

\* MerkleTree.Root
Root(mt) ==
  IF Len(mt.Levels) = 0 THEN Nil
  ELSE LET lastLevel == mt.Levels[Len(mt.Levels)]
       IN IF Len(lastLevel) = 0 THEN Nil ELSE Some(lastLevel[1])

RECURSIVE ProofWalk(_, _, _, _)
\* the loop of GetProof from level on (0-based), index and proof its locals;
\* on an even index without a right sibling the iteration is left by
\* continue, before the element is appended and before index is halved
ProofWalk(mt, level, index, proof) ==
  IF level >= Len(mt.Levels) - 1 THEN proof
  ELSE LET levelSize == Len(mt.Levels[level + 1])
           siblingIndex == IF index % 2 = 0 THEN index + 1 ELSE index - 1
           isLeft == index % 2 # 0
       IN IF index % 2 = 0 /\ siblingIndex >= levelSize
            THEN ProofWalk(mt, level + 1, index, proof)
          ELSE ProofWalk(mt, level + 1, index \div 2,
                         Append(proof, [Hash |-> At(mt.Levels[level + 1], siblingIndex),
                                        IsLeft |-> isLeft]))

\* MerkleTree.GetProof
MerkleTreeGetProof(mt, index) ==
  IF index < 0 \/ index >= Len(mt.Leaves)
    THEN [err |-> "index out of range", proof |-> << >>]
  ELSE [err |-> NoErr, proof |-> ProofWalk(mt, 0, index, << >>)]

RECURSIVE FoldProof(_, _, _)
\* the loop of VerifyProof from element n on
FoldProof(computedHash, proof, n) ==
  IF n > Len(proof) THEN computedHash
  ELSE LET pe == proof[n]
           combined == IF pe.IsLeft THEN pe.Hash \o computedHash
                       ELSE computedHash \o pe.Hash
       IN FoldProof(Sha256(combined), proof, n + 1)

\* merkle.VerifyProof; root is Root()'s result, nil or a digest
VerifyProof(leaf, proof, root) ==
  LET computedHash == FoldProof(leaf, proof, 1)
  IN IF IsNil(root) THEN Len(computedHash) = 0
     ELSE Len(computedHash) = Len(root[1]) /\ computedHash = root[1]

MaxLeaves == 14

\* the leaf lists handed to NewMerkleTree: of every length from 1 on, the
\* digests of distinct data and the digests of data that repeat
LeafLists ==
  {[i \in 1 .. n |-> Sha256(<< i >>)] : n \in 1 .. MaxLeaves}
  \cup {[i \in 1 .. n |-> Sha256(<< i % 2 >>)] : n \in 1 .. MaxLeaves}

InitMerkle ==
  /\ cfg \in {[EncryptionKey |-> k] : k \in ConfigKeys}
  /\ ShardStore = EmptyMap
  /\ disk = EmptyMap
  /\ metafiles = EmptyMap
  /\ ret = Ret("none", "", NoErr, Nil, NothingPrinted, << >>, << >>)
  /\ written = EmptyMap
  /\ nStore = 0
  /\ nFault = 0
  /\ retry = NoRetry
  /\ offline = {}
  /\ mu = Unlocked
  /\ gor = << >>
  /\ call \in {[fn |-> "NewMerkleTree", args |-> [leaves |-> l], out |-> << >>,
                done |-> FALSE] : l \in LeafLists}

\* mt := merkle.NewMerkleTree(leaves)
CallNewMerkleTree ==
  /\ call.fn = "NewMerkleTree"
  /\ ~call.done
  /\ call' = [call EXCEPT !.out = NewMerkleTree(call.args.leaves), !.done = TRUE]
  /\ UNCHANGED << cfg, ShardStore, disk, metafiles, ret, written, nStore, nFault, retry,
                  offline, mu, gor >>

\* proof, err := mt.GetProof(index), for a leaf index and for the two
\* indices next to the range
CallGetProof ==
  /\ call.fn = "NewMerkleTree"
  /\ call.done
  /\ \E index \in -1 .. Len(call.out.Leaves) :
       call' = [fn |-> "GetProof", args |-> [mt |-> call.out, index |-> index],
                out |-> MerkleTreeGetProof(call.out, index), done |-> TRUE]
  /\ UNCHANGED << cfg, ShardStore, disk, metafiles, ret, written, nStore, nFault, retry,
                  offline, mu, gor >>

\* ok := merkle.VerifyProof(mt.Leaves[index], proof, mt.Root())
CallVerifyProof ==
  /\ call.fn = "GetProof"
  /\ call.out.err = NoErr
  /\ LET mt == call.args.mt
         leaf == At(mt.Leaves, call.args.index)
     IN call' = [fn |-> "VerifyProof",
                 args |-> [mt |-> mt, index |-> call.args.index, leaf |-> leaf,
                           proof |-> call.out.proof, root |-> Root(mt)],
                 out |-> VerifyProof(leaf, call.out.proof, Root(mt)), done |-> TRUE]
  /\ UNCHANGED << cfg, ShardStore, disk, metafiles, ret, written, nStore, nFault, retry,
                  offline, mu, gor >>

NextMerkle == CallNewMerkleTree \/ CallGetProof \/ CallVerifyProof

SpecMerkle == InitMerkle /\ [][NextMerkle]_vars

(***************************************************************************)
(* datastorage.MetadataFileReader called on its own, on files of any lines *)
(* (with and without ": ", with blanks around the key and the value, with  *)
(* a second ": " in the value, empty) and on a file that does not exist.   *)
(***************************************************************************)
MaxLines == 3

InitReader ==
  /\ cfg \in {[EncryptionKey |-> k] : k \in ConfigKeys}
  /\ ShardStore = EmptyMap
  /\ disk = EmptyMap
  /\ metafiles = EmptyMap
  /\ ret = Ret("none", "", NoErr, Nil, NothingPrinted, << >>, << >>)
  /\ written = EmptyMap
  /\ nStore = 0
  /\ nFault = 0
  /\ retry = NoRetry
  /\ offline = {}
  /\ mu = Unlocked
  /\ gor = << >>
  /\ LET lines == {<< Txt("dataID"), Sep, Txt("abc") >>,
                   << Ws, Txt("dataID"), Ws, Sep, Ws, Txt("def"), Ws >>,
                   << Txt("Metadata Information") >>,
                   << Ws, Txt("shard_"), Num(0), Sep, Txt("loc_0") >>,
                   << Txt("note"), Sep, Txt("dataID"), Sep, Txt("xyz") >>,
                   << Txt("dataIDs"), Sep, Txt("none") >>,
                   << >>}
         files == UNION {[1 .. n -> lines] : n \in 0 .. MaxLines}
         keys == {KeyDataID, KeyShard(0), << Txt("filesize") >>}
     IN call \in {[fn |-> "MetadataFileReader",
                   args |-> [fs |-> fs, filename |-> "a.vmd", key |-> key],
                   out |-> << >>, done |-> FALSE] :
                    fs \in {Put(EmptyMap, "a.vmd", f) : f \in files} \cup {EmptyMap},
                    key \in keys}

\* v, err := MetadataFileReader(filename, key)
CallMetadataFileReader ==
  /\ call.fn = "MetadataFileReader"
  /\ ~call.done
  /\ call' = [call EXCEPT
                !.out = MetadataFileReader(call.args.fs, call.args.filename, call.args.key),
                !.done = TRUE]
  /\ UNCHANGED << cfg, ShardStore, disk, metafiles, ret, written, nStore, nFault, retry,
                  offline, mu, gor >>

NextReader == CallMetadataFileReader

SpecReader == InitReader /\ [][NextReader]_vars

(***************************************************************************)
(* Goroutines calling one InMemoryShardStore.  Each goroutine makes one    *)
(* call, StoreShard or RetrieveShard, for the same shard; the calls run    *)
(* statement by statement under the store's RWMutex.  An access to the map *)
(* takes time: it begins and ends in separate steps.  When a write of the  *)
(* map ends while another goroutine is inside an access of its own, the    *)
(* program has a data race on a Go map: the runtime may stop the process   *)
(* ("fatal error: concurrent map writes", "concurrent map read and map     *)
(* write") or the accesses may go through.                                 *)
(***************************************************************************)
MaxGoroutines == 2

\* the goroutines inside an access to the map other than g
Accessing(g) ==
  {h \in DOMAIN gor : h # g /\ gor[h].pc \in {"storing", "reading", "caching"}}

InitShards ==
  /\ cfg \in {[EncryptionKey |-> k] : k \in ConfigKeys}
  /\ ShardStore = EmptyMap
  /\ metafiles = EmptyMap
  /\ ret = Ret("none", "", NoErr, Nil, NothingPrinted, << >>, << >>)
  /\ written = EmptyMap
  /\ nStore = 0
  /\ nFault = 0
  /\ retry = NoRetry
  /\ offline = {}
  /\ call = NoCall
  /\ mu = Unlocked
  /\ LET dataID == GenerateDataID(<< 1 >>)
         location == << Txt("loc_0") >>
         calls == {[pc |-> "Lock", op |-> "StoreShard", dataID |-> dataID, index |-> 0,
                    location |-> location, shard |-> Some(<< 2 >>), err |-> NoErr],
                   [pc |-> "RLock", op |-> "RetrieveShard", dataID |-> dataID, index |-> 0,
                    location |-> location, shard |-> Nil, err |-> NoErr]}
     IN /\ disk \in {EmptyMap, Put(EmptyMap, getShardPath(dataID, 0, location), << 1 >>)}
        /\ gor \in [1 .. MaxGoroutines -> calls]

\* the statements of StoreShard run by goroutine g
StoreShardSteps(g) ==
  /\ gor[g].op = "StoreShard"
  /\ \A h \in DOMAIN gor : gor[h].pc # "fatal"
  /\ \/ /\ gor[g].pc = "Lock"
        /\ mu = Unlocked
        /\ mu' = [mu EXCEPT !.writer = g]
        /\ gor' = [gor EXCEPT ![g].pc = "store"]
        /\ UNCHANGED << ShardStore, disk >>
     \/ /\ gor[g].pc = "store"
        /\ gor' = [gor EXCEPT ![g].pc = "storing"]
        /\ UNCHANGED << ShardStore, disk, mu >>
     \/ /\ gor[g].pc = "storing"
        /\ \/ /\ ShardStore' = SetShard(ShardStore, gor[g].dataID, gor[g].index,
                                        gor[g].shard[1])
              /\ gor' = [gor EXCEPT ![g].pc = "persist"]
           \/ /\ Accessing(g) # {}
              /\ gor' = [gor EXCEPT ![g].pc = "fatal"]
              /\ UNCHANGED ShardStore
        /\ UNCHANGED << disk, mu >>
     \/ /\ gor[g].pc = "persist"
        /\ \E ioOk \in BOOLEAN :
             LET r == StoreShard(ShardStore, disk, gor[g].dataID, gor[g].index,
                                 gor[g].shard[1], gor[g].location, ioOk)
             IN /\ disk' = r.disk
                /\ gor' = [gor EXCEPT ![g].pc = "Unlock", ![g].err = r.err]
        /\ UNCHANGED << ShardStore, mu >>
     \/ /\ gor[g].pc = "Unlock"
        /\ mu' = [mu EXCEPT !.writer = 0]
        /\ gor' = [gor EXCEPT ![g].pc = "done"]
        /\ UNCHANGED << ShardStore, disk >>
  /\ UNCHANGED << call, cfg, metafiles, ret, written, nStore, nFault, retry, offline >>

\* the statements of RetrieveShard run by goroutine g
RetrieveShardSteps(g) ==
  /\ gor[g].op = "RetrieveShard"
  /\ \A h \in DOMAIN gor : gor[h].pc # "fatal"
  /\ \/ /\ gor[g].pc = "RLock"
        /\ mu.writer = 0
        /\ mu' = [mu EXCEPT !.readers = @ \cup {g}]
        /\ gor' = [gor EXCEPT ![g].pc = "lookup"]
        /\ UNCHANGED << ShardStore, disk >>
     \/ /\ gor[g].pc = "lookup"
        /\ gor' = [gor EXCEPT ![g].pc = "reading"]
        /\ UNCHANGED << ShardStore, disk, mu >>
     \/ /\ gor[g].pc = "reading"
        /\ IF Has(ShardStore, gor[g].dataID) /\ Has(ShardStore[gor[g].dataID], gor[g].index)
             THEN gor' = [gor EXCEPT ![g].pc = "RUnlock",
                                     ![g].shard = Some(ShardStore[gor[g].dataID][gor[g].index])]
           ELSE gor' = [gor EXCEPT ![g].pc = "load"]
        /\ UNCHANGED << ShardStore, disk, mu >>
     \/ /\ gor[g].pc = "load"
        /\ LET path == getShardPath(gor[g].dataID, gor[g].index, gor[g].location)
           IN IF Has(disk, path)
                THEN gor' = [gor EXCEPT ![g].pc = "cache", ![g].shard = Some(disk[path])]
              ELSE gor' = [gor EXCEPT ![g].pc = "RUnlock",
                                      ![g].err = "no shards found for DataID"]
        /\ UNCHANGED << ShardStore, disk, mu >>
     \/ /\ gor[g].pc = "cache"
        /\ gor' = [gor EXCEPT ![g].pc = "caching"]
        /\ UNCHANGED << ShardStore, disk, mu >>
     \/ /\ gor[g].pc = "caching"
        /\ \/ /\ ShardStore' = SetShard(ShardStore, gor[g].dataID, gor[g].index,
                                        gor[g].shard[1])
              /\ gor' = [gor EXCEPT ![g].pc = "RUnlock"]
           \/ /\ Accessing(g) # {}
              /\ gor' = [gor EXCEPT ![g].pc = "fatal"]
              /\ UNCHANGED ShardStore
        /\ UNCHANGED << disk, mu >>
     \/ /\ gor[g].pc = "RUnlock"
        /\ mu' = [mu EXCEPT !.readers = @ \ {g}]
        /\ gor' = [gor EXCEPT ![g].pc = "done"]
        /\ UNCHANGED << ShardStore, disk >>
  /\ UNCHANGED << call, cfg, metafiles, ret, written, nStore, nFault, retry, offline >>

NextShards == \E g \in 1 .. MaxGoroutines : StoreShardSteps(g) \/ RetrieveShardSteps(g)

SpecShards == InitShards /\ [][NextShards]_vars

(***************************************************************************)
(* What the properties below speak of.                                     *)
(***************************************************************************)
\* the step is a call of RetrieveData / VerifyData on metadata file name
RetrieveStep(name) == ret'.op = "RetrieveData" /\ ret'.file = name /\ DoRetrieveData
VerifyStep(name) == ret'.op = "VerifyData" /\ ret'.file = name /\ DoVerifyData
\* the step is a call of StoreData
StoreStep == nStore' = nStore + 1

\* a successful StoreData wrote the metadata file name, and the file is as
\* that call left it
Stored(name) ==
  /\ name \in DOMAIN written
  /\ name \in DOMAIN metafiles
  /\ metafiles[name] = written[name].manifest

\* the shards of the stored payload whose file is gone / holds other bytes
DeletedSet(name) == {i \in ShardIdx : ~Has(disk, PathOf(written[name], i))}
AlteredSet(name) ==
  {i \in ShardIdx : /\ Has(disk, PathOf(written[name], i))
                    /\ disk[PathOf(written[name], i)] # At(written[name].shards, i)}

\* the process has just started: its shard store holds nothing yet
FreshProcess == ShardStore = EmptyMap

\* the payload as a successful RetrieveData returns it
Returned(r, p) == r.err = NoErr /\ r.data = Some(p)

\* the ciphertext of the payload fills the data shards without padding
Aligned(p) == (AesBlockSize + Len(p)) % DataShards = 0

RECURSIVE EntryIndices(_, _)
\* the indices i of the "shard_i: ..." lines of a metadata file, in order
EntryIndices(lines, n) ==
  IF n > Len(lines) THEN << >>
  ELSE LET parts == SplitN2(lines[n])
           key == IF Len(parts) = 2 THEN TrimSpace(parts[1]) ELSE << >>
       IN (IF Len(key) = 2 /\ TokEq(key[1], Txt("shard_")) /\ key[2].k = "num"
             THEN << key[2].v >> ELSE << >>)
          \o EntryIndices(lines, n + 1)

RECURSIVE ProofIndices(_, _)
\* the indices i of the "Proof for shard i: ..." lines, in order
ProofIndices(lines, n) ==
  IF n > Len(lines) THEN << >>
  ELSE LET parts == SplitN2(lines[n])
           key == IF Len(parts) = 2 THEN TrimSpace(parts[1]) ELSE << >>
       IN (IF Len(key) = 2 /\ TokEq(key[1], Txt("Proof for shard ")) /\ key[2].k = "num"
             THEN << key[2].v >> ELSE << >>)
          \o ProofIndices(lines, n + 1)

\* a metadata file without a shard_i entry
LacksEntry(lines, i) == DropKey(lines, KeyShard(i)) = lines

ManifestErrors ==
  {"error reading metadata file", "error reading shard location from metadata file"}

\* the StoreShard calls of a log
StoreCalls(log) == SelectSeq(log, LAMBDA e : e.call = "StoreShard")

(***************************************************************************)
(* The properties.                                                         *)
(***************************************************************************)
\* C1: with all 14 shards intact, RetrieveData on the manifest StoreData wrote
\* for payload p returns exactly p, whatever the length of p.
RoundTrip ==
  [][\A name \in MetadataFileNames :
       (/\ Stored(name)
        /\ DeletedSet(name) = {}
        /\ AlteredSet(name) = {}
        /\ RetrieveStep(name))
       => Returned(ret', written[name].data)]_vars

\* C2: after a successful StoreData of p, with the shard files of at most
\* ParityShards indices deleted and the others intact, RetrieveData does not
\* fail and returns exactly p.
ErasureTolerance ==
  [][\A name \in MetadataFileNames :
       (/\ Stored(name)
        /\ Cardinality(DeletedSet(name)) <= ParityShards
        /\ AlteredSet(name) = {}
        /\ RetrieveStep(name))
       => Returned(ret', written[name].data)]_vars

\* C3: after a successful StoreData, with the shard files of ParityShards + 1
\* or more indices deleted from their locations, RetrieveData fails with the
\* insufficient-shards error and returns no bytes.
ErasureLimit ==
  [][\A name \in MetadataFileNames :
       (/\ Stored(name)
        /\ Cardinality(DeletedSet(name)) > ParityShards
        /\ RetrieveStep(name))
       => /\ ret'.err = "insufficient shards for reconstruction"
          /\ IsNil(ret'.data)]_vars

\* C4: after a successful StoreData, with the file of exactly one shard i
\* altered and nothing else changed, VerifyData (of a process that holds no
\* older copy of the shards) reports false for shard i, for every i.
TamperDetection ==
  [][\A name \in MetadataFileNames :
       (/\ FreshProcess
        /\ Stored(name)
        /\ DeletedSet(name) = {}
        /\ Cardinality(AlteredSet(name)) = 1
        /\ VerifyStep(name))
       => /\ ret'.err = NoErr
          /\ \A i \in AlteredSet(name) : ret'.report[i + 1] = "false"]_vars

\* C5: after a successful StoreData, with the file of exactly one shard i
\* altered and all other shards present and unchanged, VerifyData (of a
\* process that holds no older copy of the shards) reports true for every
\* shard j other than i.
TamperLocalisation ==
  [][\A name \in MetadataFileNames :
       (/\ FreshProcess
        /\ Stored(name)
        /\ DeletedSet(name) = {}
        /\ Cardinality(AlteredSet(name)) = 1
        /\ VerifyStep(name))
       => /\ ret'.err = NoErr
          /\ \A j \in ShardIdx \ AlteredSet(name) : ret'.report[j + 1] = "true"]_vars

\* C6: for a stored payload none of whose shards is altered, VerifyData
\* reports true for every shard it can fetch, also when other shards are
\* absent; an absent shard is only skipped.
UntamperedPasses ==
  [][\A name \in MetadataFileNames :
       (/\ FreshProcess
        /\ Stored(name)
        /\ AlteredSet(name) = {}
        /\ VerifyStep(name))
       => /\ ret'.err = NoErr
          /\ \A j \in ShardIdx \ DeletedSet(name) : ret'.report[j + 1] = "true"
          /\ \A j \in DeletedSet(name) : ret'.report[j + 1] = ""]_vars

\* C7: after a successful StoreData of p, with the bytes of one shard altered,
\* the shard still readable and the other 13 intact, RetrieveData succeeds
\* and returns p, never other bytes.  Stated for the payloads whose
\* ciphertext needs no padding and for a process that holds no older copy of
\* the shards, so that neither the padding nor the store's map decides it.
CorruptionOnRead ==
  [][\A name \in MetadataFileNames :
       (/\ FreshProcess
        /\ Stored(name)
        /\ Aligned(written[name].data)
        /\ DeletedSet(name) = {}
        /\ Cardinality(AlteredSet(name)) = 1
        /\ RetrieveStep(name))
       => Returned(ret', written[name].data)]_vars

\* C8: within one StoreData call the metadata file is written only after all
\* 14 StoreShard calls have returned success, and when a StoreShard call
\* fails StoreData returns an error and leaves the metadata files as they
\* were.
ManifestAfterShards ==
  [][StoreStep =>
       LET log == ret'.log
           calls == StoreCalls(log)
       IN /\ metafiles' # metafiles =>
               /\ ret'.err = NoErr
               /\ Len(calls) = TotalShards
               /\ \A n \in 1 .. TotalShards : calls[n].ok /\ calls[n].index = n - 1
               /\ Len(log) = TotalShards + 1
               /\ log[Len(log)].call = "WriteManifest"
               /\ SubSeq(log, 1, TotalShards) = calls
          /\ (\E n \in 1 .. Len(calls) : ~calls[n].ok) =>
               /\ ret'.err # NoErr
               /\ metafiles' = metafiles]_vars

\* a StoreData call failed at a StoreShard call after earlier shards were
\* stored, and there is no metadata file
StoreFailedMidway ==
  /\ ret.op = "StoreData"
  /\ ret.err # NoErr
  /\ Len(ret.log) > 1
  /\ ~ret.log[Len(ret.log)].ok
  /\ ret.log[1].ok
  /\ disk # EmptyMap
  /\ metafiles = EmptyMap

\* C9: every successful StoreData, whatever locations list it was given, has
\* written a manifest with exactly 14 shard_i entries covering 0 .. 13 with
\* no gaps and no extras, a dataID that is the hex SHA-256 of the ciphertext
\* whose shards were persisted, and one proof entry per shard.
ManifestComplete ==
  [][\A name \in MetadataFileNames :
       (StoreStep /\ ret'.err = NoErr /\ ret'.file = name /\ name \notin DOMAIN metafiles)
       => /\ name \in DOMAIN metafiles'
          /\ EntryIndices(metafiles'[name], 1) = [n \in 1 .. TotalShards |-> n - 1]
          /\ ProofIndices(metafiles'[name], 1) = [n \in 1 .. TotalShards |-> n - 1]
          /\ LET id == MetadataFileReader(metafiles', name, KeyDataID)
             IN /\ id.err = NoErr
                /\ StrEq(id.value, GenerateDataID(written'[name].cipherText))
          /\ \A i \in ShardIdx :
               /\ Has(disk', PathOf(written'[name], i))
               /\ disk'[PathOf(written'[name], i)] = At(Encode(written'[name].cipherText).shards, i)
         ]_vars

\* C10: RetrieveData on a manifest that lacks one of the entries shard_0 ..
\* shard_13 fails with a manifest error, returns no bytes, and has made no
\* backend get call.
MissingEntryRejected ==
  [][\A name \in MetadataFileNames :
       (/\ name \in DOMAIN metafiles
        /\ \E i \in 0 .. (ManifestShardCount - 1) : LacksEntry(metafiles[name], i)
        /\ RetrieveStep(name))
       => /\ ret'.err \in ManifestErrors
          /\ IsNil(ret'.data)
          /\ ret'.log = << >>]_vars

\* RetrieveData was called on a manifest StoreData wrote and that has lost
\* one shard_i entry, while every shard is still in place
RetrieveOnIncompleteManifest ==
  /\ ret.op = "RetrieveData"
  /\ ret.file \in DOMAIN written
  /\ ret.file \in DOMAIN metafiles
  /\ metafiles[ret.file] # written[ret.file].manifest
  /\ \E i \in 0 .. (ManifestShardCount - 1) : LacksEntry(metafiles[ret.file], i)
  /\ DeletedSet(ret.file) = {}
  /\ ret.err = "error reading shard location from metadata file"
  /\ ret.log = << >>

\* C11: Retry with attempts >= 1 calls fn at most attempts times, makes no
\* call after the first one that returns nil and then returns nil, and when
\* every call fails returns the error of the last, attempts-th, call.
RetryStopsAndReturns ==
  retry.op # "none" =>
    LET calls == retry.calls
        made == Len(calls)
    IN /\ retry.attempts >= 1
       /\ made <= retry.attempts
       /\ \A k \in 1 .. (made - 1) : calls[k] # NoErr
       /\ (made > 0 /\ calls[made] = NoErr) => (retry.pc = "done" /\ retry.err = NoErr)
       /\ retry.pc = "done" =>
            \/ made > 0 /\ calls[made] = NoErr /\ retry.err = NoErr
            \/ /\ made = retry.attempts
               /\ \A k \in 1 .. made : calls[k] # NoErr
               /\ retry.err = calls[retry.attempts]

\* a Retry call with three attempts returned nil after its second call of
\* fn, the first having failed
RetryStoppedEarly ==
  /\ retry.pc = "done"
  /\ retry.attempts = DefaultAttempts
  /\ Len(retry.calls) = 2
  /\ retry.calls[1] # NoErr
  /\ retry.calls[2] = NoErr
  /\ retry.err = NoErr

\* C12: the wait between attempt k and attempt k + 1 of Retry is the initial
\* delay times 2^(k-1): the initial delay before the 2nd attempt, twice the
\* previous wait before each later one (2 s, 4 s for main's 3 attempts).
BackoffDoubles ==
  retry.op # "none" =>
    /\ Len(retry.calls) <= Len(retry.waits) + 1
    /\ retry.pc = "loop" => Len(retry.waits) = Len(retry.calls)
    /\ \A k \in 1 .. Len(retry.waits) :
         k < retry.attempts => retry.waits[k] = retry.initial * 2 ^ (k - 1)

\* main's Retry(3, 2 s) has made its three attempts, 2 s and 4 s apart
DefaultBackoffRan ==
  /\ retry.attempts = DefaultAttempts
  /\ retry.initial = DefaultSleep
  /\ Len(retry.calls) = DefaultAttempts
  /\ SubSeq(retry.waits, 1, 2) = << 2, 4 >>

\* the step is the k-th call of fn in a Retry-wrapped retrieve command, and
\* it succeeds
RetrieveAttemptSucceeds(k) ==
  /\ retry.op = "retrieve"
  /\ retry.pc = "loop"
  /\ retry.i = k - 1
  /\ retry'.pc = "done"
  /\ Len(retry'.calls) = k
  /\ retry'.err = NoErr

\* what the first attempt of a retrieve command returns for the manifest
\* name and the shard files as they are, those of the indices S unreadable
FirstAttempt(name, S) ==
  RetrieveData(name, EmptyMap, Without(disk, {PathOf(written[name], i) : i \in S}),
               metafiles, cfg)

\* C13: for the same manifest and the same stored shards, a Retry-wrapped
\* RetrieveData whose first attempt fails and whose second succeeds yields
\* exactly the bytes of one whose first attempt succeeds.
RetryIdempotent ==
  [][\A name \in MetadataFileNames :
       (/\ name \in DOMAIN written
        /\ retry.args = [metadataFile |-> name]
        /\ RetrieveAttemptSucceeds(2))
       => \A S \in Outages \cup {{}} :
            FirstAttempt(name, S).err = NoErr => retry'.data = FirstAttempt(name, S).data]_vars

(***************************************************************************)
(* C14: for every valid 32-byte key, Decrypt on an input shorter than 16   *)
(* bytes (the empty input included) returns a non-nil error and no         *)
(* plaintext.                                                              *)
(***************************************************************************)
DecryptRejectsShortInput ==
  (/\ call.fn = "Decrypt"
   /\ call.done
   /\ Len(call.args.key) = AesKeySize
   /\ Len(call.args.cipherText) < AesBlockSize)
  => (call.out.err # NoErr /\ IsNil(call.out.data))

(***************************************************************************)
(* C15: VerifyData changes no state: the shard files, the metadata files   *)
(* and the contents of the shard store are after the call what they were   *)
(* before it, whatever the call returns and whichever shards are present.  *)
(***************************************************************************)
VerifyNeverMutates ==
  [][\A name \in MetadataFileNames :
       VerifyStep(name)
         => (disk' = disk /\ metafiles' = metafiles /\ ShardStore' = ShardStore)]_vars

(***************************************************************************)
(* C16: when the proof VerifyData recomputes for some present shard differs*)
(* from the proof kept in the metadata file, VerifyData returns an error   *)
(* to its caller, not success.                                             *)
(***************************************************************************)
ProofMismatchSurfaced ==
  [][\A name \in MetadataFileNames :
       (/\ \E n \in 1 .. ManifestShardCount : ret'.report[n] = "false"
        /\ VerifyStep(name))
       => ret'.err # NoErr]_vars

(***************************************************************************)
(* C17: two StoreData calls on the same payload and key compute the same   *)
(* content id: when Retry runs StoreData again after an attempt that       *)
(* failed part-way, the shards of the later attempt have the keys of, and  *)
(* overwrite, the shards the earlier attempt left; after a later attempt   *)
(* that succeeds the shard files are exactly the 14 files of that attempt. *)
(***************************************************************************)
RestoreOverwrites ==
  [][\A name \in MetadataFileNames :
       (/\ retry.op = "store"
        /\ retry.i > 0
        /\ Len(retry'.calls) = Len(retry.calls) + 1
        /\ ret'.file = name
        /\ ret'.err = NoErr)
       => DOMAIN disk' = {PathOf(written'[name], i) : i \in ShardIdx}]_vars

\* the configured key is no hex string or does not decode to exactly 32 bytes
InvalidKey(c) ==
  \/ \E i \in 1 .. Len(c.EncryptionKey) : c.EncryptionKey[i] = NotHex
  \/ Len(c.EncryptionKey) # 2 * AesKeySize

(***************************************************************************)
(* C18: under a configured key that is no valid hex or does not decode to  *)
(* exactly 32 bytes, StoreData returns an error before any StoreShard call *)
(* and writes no metadata file (the shard files and the shard store stay   *)
(* as they were), and RetrieveData returns an error and no bytes.          *)
(***************************************************************************)
InvalidKeyRejected ==
  [][InvalidKey(cfg) =>
       /\ StoreStep =>
            /\ ret'.err # NoErr
            /\ StoreCalls(ret'.log) = << >>
            /\ metafiles' = metafiles
            /\ disk' = disk
            /\ ShardStore' = ShardStore
       /\ \A name \in MetadataFileNames :
            RetrieveStep(name) => (ret'.err # NoErr /\ IsNil(ret'.data))]_vars

\* RetrieveData fetched and decoded the shards of a stored payload and then
\* rejected the configured key
RetrieveUnderInvalidKey ==
  /\ InvalidKey(cfg)
  /\ written # EmptyMap
  /\ ret.op = "RetrieveData"
  /\ Len(ret.log) = TotalShards
  /\ ret.err \in {"encoding/hex: invalid byte", "encoding/hex: odd length hex string",
                  "invalid encryption key length"}
  /\ IsNil(ret.data)

(***************************************************************************)
(* C19: in package merkle, for every non-empty leaf list (14 leaves and    *)
(* the lists with a level of odd size included) and every leaf index i,    *)
(* VerifyProof(leaves[i], GetProof(i), Root()) is true.                    *)
(***************************************************************************)
ProofVerifies ==
  (call.fn = "VerifyProof" /\ Len(call.args.mt.Leaves) > 0) => call.out = TRUE

(***************************************************************************)
(* C20: StoreData calls StoreShard in ascending index order 0, 1, 2, ...;  *)
(* it stops at the first call that fails: no call is made for a greater    *)
(* index, and nothing is rolled back: the shards of the indices before the *)
(* failing one stay persisted at their locations.                          *)
(***************************************************************************)
StoreStopsWithoutRollback ==
  [][StoreStep =>
       LET calls == StoreCalls(ret'.log)
       IN /\ \A n \in 1 .. Len(calls) : calls[n].index = n - 1
          /\ \A n \in 1 .. Len(calls) : ~calls[n].ok => n = Len(calls)
          /\ \A n \in 1 .. Len(calls) :
               calls[n].ok =>
                 \E p \in DOMAIN disk' :
                    /\ p[1] = calls[n].location
                    /\ p[3] = n - 1
                    /\ disk'[p] = At(ret'.shards, n - 1)]_vars

\* a StoreData call stopped at a failing StoreShard call for an index
\* between the first and the last, the earlier shards on disk
StoreStoppedAtFailure ==
  /\ ret.op = "StoreData"
  /\ LET calls == StoreCalls(ret.log)
     IN /\ Len(calls) > 2
        /\ Len(calls) < TotalShards
        /\ ~calls[Len(calls)].ok
        /\ Cardinality(DOMAIN disk) = Len(calls) - 1

\* the position of the first ": " of a line that has one
FirstSep(line) ==
  CHOOSE i \in 1 .. Len(line) :
    line[i].k = "sep" /\ \A j \in 1 .. (i - 1) : line[j].k # "sep"

\* the line is a key-value line whose key, blanks aside, is key
LineHasKey(line, key) ==
  /\ \E i \in 1 .. Len(line) : line[i].k = "sep"
  /\ StrEq(TrimSpace(SubSeq(line, 1, FirstSep(line) - 1)), key)

IndexBinding ==
  [][\A name \in MetadataFileNames :
       /\ (ret'.err = NoErr /\ ret'.file = name /\ StoreStep) =>
            LET w == written'[name]
            IN \A i \in ShardIdx :
                 /\ Has(disk', getShardPath(w.dataID, i, w.locations[i + 1]))
                 /\ disk'[getShardPath(w.dataID, i, w.locations[i + 1])] = At(w.shards, i)
                 /\ \E n \in 1 .. Len(metafiles'[name]) :
                      StrEq(metafiles'[name][n],
                            << Ws, Txt("shard_"), Num(i), Sep >> \o w.locations[i + 1])
       /\ (ret'.log # << >> /\ (RetrieveStep(name) \/ VerifyStep(name))) =>
            LET id == MetadataFileReader(metafiles, name, KeyDataID).value
            IN /\ Len(ret'.log) = TotalShards
               /\ Len(ret'.shards) = TotalShards
               /\ \A i \in ShardIdx :
                    LET e == ret'.log[i + 1]
                        entry == MetadataFileReader(metafiles, name, KeyShard(i)).value
                    IN /\ e.call = "RetrieveShard"
                       /\ e.index = i
                       /\ StrEq(e.location, entry)
                       /\ At(ret'.shards, i)
                          = RetrieveShard(ShardStore, disk, id, i, entry).shard
       /\ (/\ FreshProcess
           /\ Stored(name)
           /\ AlteredSet(name) = {}
           /\ Cardinality(DeletedSet(name)) <= ParityShards
           /\ RetrieveStep(name)) =>
            Reconstruct(ret'.shards).shards = written[name].shards]_vars

\* RetrieveData fetched the shards of a stored payload, some files missing,
\* and every slot of the vector holds the shard of its index or nothing
FetchedByIndex ==
  /\ ret.op = "RetrieveData"
  /\ ret.err = NoErr
  /\ ret.file \in DOMAIN written
  /\ Len(ret.shards) = TotalShards
  /\ \E i \in ShardIdx : IsNil(At(ret.shards, i))
  /\ \A i \in ShardIdx :
       IsNil(At(ret.shards, i)) \/ At(ret.shards, i) = Some(At(written[ret.file].shards, i))

(***************************************************************************)
(* C23: RetrieveShard(dataID, i, location) returns the bytes that the file *)
(* of (dataID, i) at location holds at the time of the call, and fails     *)
(* when there is no such file, whatever StoreShard and RetrieveShard calls *)
(* the process made before.  Stated on the calls RetrieveData makes.       *)
(***************************************************************************)
RetrieveShardReadsFile ==
  [][\A name \in MetadataFileNames :
       (ret'.log # << >> /\ RetrieveStep(name)) =>
         LET id == MetadataFileReader(metafiles, name, KeyDataID).value
         IN \A n \in 1 .. Len(ret'.log) :
              LET e == ret'.log[n]
                  path == getShardPath(id, e.index, e.location)
              IN IF Has(disk, path)
                   THEN e.ok /\ ret'.shards[n] = Some(disk[path])
                 ELSE ~e.ok /\ IsNil(ret'.shards[n])]_vars

(***************************************************************************)
(* C25: when StoreShard returns an error the store is left as it was: a    *)
(* later RetrieveShard for the same (dataID, index) does not return the    *)
(* shard that failed to persist.  Stated on the StoreShard call that       *)
(* fails within StoreData.                                                 *)
(***************************************************************************)
FailedStoreLeavesNoShard ==
  [][(StoreStep /\ StoreCalls(ret'.log) # << >>) =>
       LET calls == StoreCalls(ret'.log)
           e == calls[Len(calls)]
       IN ~e.ok =>
            \A id \in DOMAIN ShardStore' \ DOMAIN ShardStore :
               LET r == RetrieveShard(ShardStore', disk', id, e.index, e.location)
               IN r.err # NoErr \/ r.shard # Some(At(ret'.shards, e.index))]_vars

(***************************************************************************)
(* C24: the shard map of InMemoryShardStore is written only while the      *)
(* exclusive lock is held: under every interleaving of StoreShard and      *)
(* RetrieveShard calls, a goroutine inside a write of the map holds Lock,  *)
(* and no other goroutine is inside a write or a read of the map.          *)
(***************************************************************************)
MapWritesExclusive ==
  \A g \in DOMAIN gor :
    gor[g].pc \in {"storing", "caching"} => (mu.writer = g /\ Accessing(g) = {})

RECURSIVE PositionPath(_, _, _)
\* the Merkle path of the node at position n (from 1) of level lv, by
\* position: at every level the sibling's hash, and 1 when the node is a
\* left child, 0 when it is a right child
PositionPath(tree, lv, n) ==
  IF lv >= Len(tree.levels) THEN [path |-> << >>, index |-> << >>]
  ELSE LET nl == tree.levels[lv]
           rest == PositionPath(tree, lv + 1, ((n - 1) \div 2) + 1)
       IN IF n % 2 = 1
            THEN [path |-> << IF n + 1 > Len(nl) THEN nl[n] ELSE nl[n + 1] >> \o rest.path,
                  index |-> << 1 >> \o rest.index]
            ELSE [path |-> << nl[n - 1] >> \o rest.path, index |-> << 0 >> \o rest.index]

(***************************************************************************)
(* C26: the proof StoreData records for shard i (and the proof VerifyData  *)
(* recomputes for it) is the Merkle path of leaf position i, also when two *)
(* shards of the payload have the same bytes.                              *)
(***************************************************************************)
ProofOfOwnPosition ==
  [][\A name \in MetadataFileNames :
       (ret'.err = NoErr /\ ret'.file = name /\ StoreStep) =>
         LET w == written'[name]
             tree == BuildMerkleTree([n \in 1 .. Len(w.shards) |-> Some(w.shards[n])])
         IN \A i \in ShardIdx :
              LET p == PositionPath(tree, 1, i + 1)
              IN StrEq(MetadataFileReader(metafiles', name, KeyProof(i)).value,
                       << Txt("proof"), Sep, [k |-> "hashes", v |-> p.path],
                          Txt(", indices"), Sep, [k |-> "ints", v |-> p.index] >>)]_vars

(***************************************************************************)
(* C27: Retry returns nil only if some invocation of fn returned nil, for  *)
(* every value of attempts, zero and negative ones included.               *)
(***************************************************************************)
SuccessOnlyFromFn ==
  (retry.pc = "done" /\ retry.err = NoErr)
  => \E k \in 1 .. Len(retry.calls) : retry.calls[k] = NoErr

RECURSIVE SumWaits(_)
SumWaits(w) == IF w = << >> THEN 0 ELSE Head(w) + SumWaits(Tail(w))

(***************************************************************************)
(* C28: Retry waits only between attempts, never after its final attempt:  *)
(* when all attempts fail it has waited attempts-1 times, in total         *)
(* initial-delay * (2^(attempts-1) - 1).                                   *)
(***************************************************************************)
NoWaitAfterLastAttempt ==
  (/\ retry.pc = "done"
   /\ retry.attempts >= 1
   /\ Len(retry.calls) = retry.attempts
   /\ \A k \in 1 .. Len(retry.calls) : retry.calls[k] # NoErr)
  => /\ Len(retry.waits) = retry.attempts - 1
     /\ SumWaits(retry.waits) = retry.initial * (2 ^ (retry.attempts - 1) - 1)

(***************************************************************************)
(* C29: every metadata file holds the record of exactly one Store:         *)
(* StoreData never appends to a file that exists, so the dataID (and the   *)
(* locations) RetrieveData reads from it are those of the Store that wrote *)
(* the file, also when two Stores generate the same file name.             *)
(***************************************************************************)
ManifestOfOneStore ==
  \A name \in DOMAIN metafiles :
    name \in DOMAIN written =>
      /\ Cardinality({n \in 1 .. Len(metafiles[name]) :
                        LineHasKey(metafiles[name][n], KeyDataID)}) = 1
      /\ StrEq(MetadataFileReader(metafiles, name, KeyDataID).value, written[name].dataID)

====
